---- MODULE Spec2Model ----
(***************************************************************************)
(* Model of the ritual-form print-alignment engine:                        *)
(*   src/modules/pdf_engine.py          (renderer, font registration)      *)
(*   src/modules/calibration_preview.py (calibration preview geometry)     *)
(*                                                                         *)
(* Units.  A length in millimetres is an integer number of 1/100 mm, so    *)
(* that half-millimetre offsets are exact.  A length in points is an       *)
(* integer number of 1/12700 pt: 1 mm = 72/25.4 pt = 360/127 pt, hence     *)
(* v/100 mm = 360*v/12700 pt.  The arithmetic is exact where the program   *)
(* uses binary floating point.                                             *)
(*                                                                         *)
(* A text is a sequence of one-character strings.                          *)
(***************************************************************************)
EXTENDS Integers, Sequences, FiniteSets, TLC

\* Longest text given to the drawing routines.
MaxLen == 3

\* Offsets range over -MaxNudge .. MaxNudge steps of 0.5 mm.
MaxNudge == 2

\* n whole millimetres, in the model's unit of length.
Mm(n) == n * 100

\* pdf_engine.mm: millimetres to points (value * reportlab.lib.units.mm).
mm(value) == value * 360

Chars == {"A", "B"}

Texts == UNION {[1..n -> Chars] : n \in 0..MaxLen}

Offsets == {k * 50 : k \in (0 - MaxNudge)..MaxNudge}

(***************************************************************************)
(* The ReportLab canvas: the current font size and the drawString calls    *)
(* issued so far, each with the text it draws, its position in points and  *)
(* the font size in force.                                                 *)
(***************************************************************************)
NewCanvas == [size |-> 0, ops |-> <<>>]

setFont(c, size) == [c EXCEPT !.size = size]

drawString(c, x, y, text) ==
    [c EXCEPT !.ops = Append(@, [text |-> text, x |-> x, y |-> y, size |-> c.size])]

\* The loop of _draw_vertical_text from index i (1-based) to the end of text.
RECURSIVE VerticalLoop(_, _, _, _, _, _, _, _)
VerticalLoop(c, text, i, x_mm, y_start_mm, line_spacing_mm, offset_x, offset_y) ==
    IF i > Len(text) THEN c
    ELSE LET final_x == mm(x_mm + offset_x)
             final_y == mm(y_start_mm + offset_y) - mm((i - 1) * line_spacing_mm)
         IN  VerticalLoop(drawString(c, final_x, final_y, <<text[i]>>), text, i + 1,
                          x_mm, y_start_mm, line_spacing_mm, offset_x, offset_y)

\* A faulty variant: the calibration offset is applied to the first glyph only.
DrawVerticalTextOffsetOnce(c, text, x_mm, y_start_mm, line_spacing_mm, offset_x, offset_y) ==
    IF text = <<>> THEN c
    ELSE VerticalLoop(drawString(c, mm(x_mm + offset_x), mm(y_start_mm + offset_y), <<text[1]>>),
                      text, 2, x_mm, y_start_mm, line_spacing_mm, 0, 0)

\* A faulty variant: the run climbs the page instead of descending.
DrawVerticalTextUpwards(c, text, x_mm, y_start_mm, line_spacing_mm, offset_x, offset_y) ==
    VerticalLoop(c, text, 1, x_mm, y_start_mm, 0 - line_spacing_mm, offset_x, offset_y)

\* _draw_vertical_text: one drawString per character, top to bottom.
_draw_vertical_text(c, text, x_mm, y_start_mm, line_spacing_mm, offset_x, offset_y) ==
    VerticalLoop(c, text, 1, x_mm, y_start_mm, line_spacing_mm, offset_x, offset_y)

\* _draw_horizontal_text: a single drawString of the whole text at the anchor.
_draw_horizontal_text(c, text, x_mm, y_mm, offset_x, offset_y) ==
    LET final_x == mm(x_mm + offset_x)
        final_y == mm(y_mm + offset_y)
    IN  drawString(c, final_x, final_y, text)

(***************************************************************************)
(* The five drawing call sites of generate_pdf, in order: the anchor, the  *)
(* font size set before the call and, for a vertical call, the spacing.    *)
(* The horizontal calls pass no spacing.  Site k draws the text of field k *)
(* of the preview's FIELDS table.                                          *)
(***************************************************************************)
NumFields == 5

SITES ==
    << [x |-> Mm(68),  y |-> Mm(200), vertical |-> TRUE,  size |-> 14, spacing |-> Mm(12)],
       [x |-> Mm(42),  y |-> Mm(170), vertical |-> TRUE,  size |-> 14, spacing |-> Mm(12)],
       [x |-> Mm(155), y |-> Mm(200), vertical |-> TRUE,  size |-> 16, spacing |-> Mm(14)],
       [x |-> Mm(140), y |-> Mm(80),  vertical |-> FALSE, size |-> 14],
       [x |-> Mm(170), y |-> Mm(55),  vertical |-> FALSE, size |-> 14] >>

\* One call site: c.setFont(FONT_NAME, size), then the drawing routine.
RenderField(k, c, text, offset_x, offset_y) ==
    LET s == SITES[k]
    IN  IF s.vertical
        THEN _draw_vertical_text(setFont(c, s.size), text, s.x, s.y, s.spacing,
                                 offset_x, offset_y)
        ELSE _draw_horizontal_text(setFont(c, s.size), text, s.x, s.y,
                                   offset_x, offset_y)

\* calibration_preview.FIELDS (label, desc, sample and color left out).
FIELDS ==
    << [x |-> Mm(68),  y |-> Mm(200), vertical |-> TRUE,  spacing |-> Mm(12)],
       [x |-> Mm(42),  y |-> Mm(170), vertical |-> TRUE,  spacing |-> Mm(12)],
       [x |-> Mm(155), y |-> Mm(200), vertical |-> TRUE,  spacing |-> Mm(14)],
       [x |-> Mm(140), y |-> Mm(80),  vertical |-> FALSE, spacing |-> Mm(6)],
       [x |-> Mm(170), y |-> Mm(55),  vertical |-> FALSE, spacing |-> Mm(6)] >>

\* CalibrationPreview._draw_field: the marker run of one field, one marker
\* per character of sample, each at its position in millimetres (the argument
\* handed to _mm_to_px).
_draw_field(field, sample, ox, oy) ==
    LET fx == field.x + ox
        fy == field.y + oy
        spacing == field.spacing
    IN  IF field.vertical
        THEN [i \in 1..Len(sample) |->
                 [char |-> sample[i], x |-> fx, y |-> fy - (i - 1) * spacing]]
        ELSE [i \in 1..Len(sample) |->
                 [char |-> sample[i], x |-> fx + (i - 1) * spacing, y |-> fy]]

(***************************************************************************)
(* Font registration.  fontEnv gives, for each entry of _FONT_CANDIDATES   *)
(* in list order, what the file system holds: no file ("missing"), a file  *)
(* TTFont cannot load ("unloadable"), or a loadable font ("ok").           *)
(***************************************************************************)
NumCandidates == 4

CandidateStates == {"missing", "unloadable", "ok"}

FontEnvs == [1..NumCandidates -> CandidateStates]

\* The environments of the sequential specification: the first loadable font
\* is candidate k (none when k is past the list), the candidates before it
\* are all missing or all unloadable, those after it are missing.
SeqFontEnvs ==
    { [i \in 1..NumCandidates |->
          IF i < k THEN before ELSE IF i = k THEN "ok" ELSE "missing"] :
      k \in 1..(NumCandidates + 1), before \in {"missing", "unloadable"} }

Usable(env) == \E i \in 1..NumCandidates : env[i] = "ok"

\* The for loop of _register_font from candidate i on; `checked` counts the
\* os.path.isfile calls made so far.
RECURSIVE ScanCandidates(_, _, _)
ScanCandidates(env, i, checked) ==
    IF i > NumCandidates
    THEN [registered |-> FALSE, raised |-> TRUE, checked |-> checked, registrations |-> 0]
    ELSE IF env[i] = "ok"
         THEN [registered |-> TRUE, raised |-> FALSE, checked |-> checked + 1,
               registrations |-> 1]
         ELSE ScanCandidates(env, i + 1, checked + 1)

\* A faulty variant: the _FONT_REGISTERED test is missing, every call scans.
RegisterFontEveryCall(flag, env) ==
    LET r == ScanCandidates(env, 1, 0)
    IN  [r EXCEPT !.registered = flag \/ r.registered]

\* _register_font: the new value of _FONT_REGISTERED, whether
\* FileNotFoundError is raised, and how many candidates were checked and
\* fonts registered by this call.
_register_font(flag, env) ==
    IF flag
    THEN [registered |-> TRUE, raised |-> FALSE, checked |-> 0, registrations |-> 0]
    ELSE ScanCandidates(env, 1, 0)

(***************************************************************************)
(* Files.  A PDF file on disk: whether it exists, whether it was written   *)
(* completely, its page count, whether its page has the template as        *)
(* background, whether it is the calibration grid, and the drawString      *)
(* calls of its text layer.                                                *)
(***************************************************************************)
NoFile ==
    [exists |-> FALSE, complete |-> FALSE, pages |-> 0, background |-> FALSE,
     grid |-> FALSE, ops |-> <<>>]

PartialFile ==
    [exists |-> TRUE, complete |-> FALSE, pages |-> 0, background |-> FALSE,
     grid |-> FALSE, ops |-> <<>>]

PdfFile(background, ops) ==
    [exists |-> TRUE, complete |-> TRUE, pages |-> 1, background |-> background,
     grid |-> FALSE, ops |-> ops]

GridFile ==
    [exists |-> TRUE, complete |-> TRUE, pages |-> 1, background |-> FALSE,
     grid |-> TRUE, ops |-> <<>>]

\* output_path, output_path + ".overlay.tmp", and the calibration grid's path.
Paths == {"out", "overlay", "grid"}

TemplateStates == {"absent", "ok", "corrupt"}

(***************************************************************************)
(* Faults the environment can raise inside a call: where and with which    *)
(* exception class.  A fault at a point the call does not reach has no     *)
(* effect.                                                                 *)
(***************************************************************************)
NoFault == [at |-> "none", exc |-> "none"]

Faults ==
    { NoFault,
      [at |-> "draw",         exc |-> "Exception"],
      [at |-> "save_open",    exc |-> "FileNotFoundError"],
      [at |-> "save_write",   exc |-> "OSError"],
      [at |-> "read_overlay", exc |-> "FileNotFoundError"],
      [at |-> "open_out",     exc |-> "PermissionError"],
      [at |-> "write_out",    exc |-> "OSError"] }

\* The field values of a print job (data.get(key, "") of each key).
DataFull ==
    [panggilan |-> <<"A">>, nama_mandarin |-> <<"B", "A">>, dari |-> <<"B">>,
     keterangan |-> <<"A">>, tahun_lunar |-> <<"A", "B">>,
     bulan_lunar |-> <<"B", "A">>, hari_lunar |-> <<"A">>]

DataSparse ==
    [panggilan |-> <<>>, nama_mandarin |-> <<"A">>, dari |-> <<"B">>,
     keterangan |-> <<>>, tahun_lunar |-> <<>>,
     bulan_lunar |-> <<>>, hari_lunar |-> <<"B">>]

\* A path names a file of the working directory either relative to it or in
\* absolute form; both forms of a name are the same file.
NoPath == [abs |-> FALSE, name |-> "none"]

\* A faulty variant: the path is returned as the caller gave it.
AbspathUnchanged(path) == path

\* os.path.abspath: the working directory is prepended to a relative path.
abspath(path) == [abs |-> TRUE, name |-> path.name]

\* The print jobs: field values, calibration offset and output_path.
Jobs ==
    { [data |-> DataFull, ox |-> 50, oy |-> -100,
       path |-> [abs |-> TRUE, name |-> "out"]],
      [data |-> DataSparse, ox |-> 0, oy |-> 0,
       path |-> [abs |-> FALSE, name |-> "out"]] }

\* A faulty variant: each part of a combined field is drawn as a run of its
\* own, both starting at the field's anchor.
DrawOverlaySeparateRuns(data, offset_x, offset_y) ==
    LET c1a == RenderField(1, NewCanvas, data.panggilan, offset_x, offset_y)
        c1 == RenderField(1, c1a, data.nama_mandarin, offset_x, offset_y)
        c2a == RenderField(2, c1, data.dari, offset_x, offset_y)
        c2 == RenderField(2, c2a, data.keterangan, offset_x, offset_y)
        c3 == RenderField(3, c2, data.tahun_lunar, offset_x, offset_y)
        c4 == RenderField(4, c3, data.bulan_lunar, offset_x, offset_y)
        c5 == RenderField(5, c4, data.hari_lunar, offset_x, offset_y)
    IN  c5

\* The drawing part of generate_pdf: the overlay canvas after the five fields.
DrawOverlay(data, offset_x, offset_y) ==
    LET mendiang_text == data.panggilan \o data.nama_mandarin
        pengirim_text == IF data.keterangan # <<>>
                         THEN data.dari \o data.keterangan
                         ELSE data.dari
        c1 == RenderField(1, NewCanvas, mendiang_text, offset_x, offset_y)
        c2 == RenderField(2, c1, pengirim_text, offset_x, offset_y)
        c3 == RenderField(3, c2, data.tahun_lunar, offset_x, offset_y)
        c4 == RenderField(4, c3, data.bulan_lunar, offset_x, offset_y)
        c5 == RenderField(5, c4, data.hari_lunar, offset_x, offset_y)
    IN  c5

\* A faulty variant: without a template the output gets a blank page.
MergeDropsOverlayWithoutTemplate(tmpl, overlay, before, fault) ==
    IF tmpl = "ok"
    THEN [exc |-> "none", cause |-> "none", out |-> PdfFile(TRUE, overlay.ops)]
    ELSE [exc |-> "none", cause |-> "none", out |-> PdfFile(FALSE, <<>>)]

\* _merge_template_and_overlay: the exception it raises ("none" if none),
\* what raised it, and the file at output_path afterwards (`before` is the
\* file there before the call).
_merge_template_and_overlay(tmpl, overlay, before, fault) ==
    IF fault.at = "read_overlay"
    THEN [exc |-> fault.exc, cause |-> "read_overlay", out |-> before]
    ELSE IF tmpl = "corrupt"
    THEN [exc |-> "PdfReadError", cause |-> "template", out |-> before]
    ELSE IF fault.at = "open_out"
    THEN [exc |-> fault.exc, cause |-> "open_out", out |-> before]
    ELSE IF fault.at = "write_out"
    THEN [exc |-> fault.exc, cause |-> "write_out", out |-> PartialFile]
    ELSE [exc |-> "none", cause |-> "none", out |-> PdfFile(tmpl = "ok", overlay.ops)]

\* A faulty variant: every exception is wrapped, as generate_calibration_pdf does.
RaisedAsRuntimeError(exc) == "RuntimeError"

\* The except clauses of generate_pdf: FileNotFoundError is re-raised, any
\* other exception is wrapped in RuntimeError.
RaisedAs(exc) ==
    IF exc = "FileNotFoundError" THEN "FileNotFoundError" ELSE "RuntimeError"

EmptyData ==
    [panggilan |-> <<>>, nama_mandarin |-> <<>>, dari |-> <<>>, keterangan |-> <<>>,
     tahun_lunar |-> <<>>, bulan_lunar |-> <<>>, hari_lunar |-> <<>>]

\* What a call leaves behind: how it ended ("ok" or the exception raised to
\* the caller), where it failed, the disk, whether the call wrote the
\* temporary overlay file, the value returned (NoPath when it raised) and
\* the caller's data mapping after the call.
Outcome(status, cause, d, overlayMade, ret, data) ==
    [status |-> status, cause |-> cause, disk |-> d, overlayMade |-> overlayMade,
     ret |-> ret, data |-> data]

\* generate_pdf after its _register_font call (fontRaised: that call raised),
\* on disk d with the template in state tmpl.  output_path names the file
\* "out" of the disk, output_path + ".overlay.tmp" the file "overlay".
generate_pdf(data, output_path, offset_x, offset_y, fault, fontRaised, tmpl, d) ==
    IF fontRaised
    THEN Outcome(RaisedAs("FileNotFoundError"), "font", d, FALSE, NoPath, data)
    ELSE IF fault.at = "draw"
    THEN Outcome(RaisedAs(fault.exc), "draw", d, FALSE, NoPath, data)
    ELSE IF fault.at = "save_open"
    THEN Outcome(RaisedAs(fault.exc), "save", d, FALSE, NoPath, data)
    ELSE IF fault.at = "save_write"
    THEN Outcome(RaisedAs(fault.exc), "save", [d EXCEPT !["overlay"] = PartialFile],
                 TRUE, NoPath, data)
    ELSE LET overlay == PdfFile(FALSE, DrawOverlay(data, offset_x, offset_y).ops)
             m == _merge_template_and_overlay(tmpl, overlay, d["out"], fault)
         IN  IF m.exc # "none"
             THEN Outcome(RaisedAs(m.exc), m.cause,
                          [d EXCEPT !["out"] = m.out,
                                    !["overlay"] = IF fault.at = "read_overlay"
                                                   THEN NoFile ELSE overlay],
                          TRUE, NoPath, data)
             ELSE Outcome("ok", "none",
                          [d EXCEPT !["out"] = m.out, !["overlay"] = NoFile],
                          TRUE, abspath(output_path), data)

\* generate_calibration_pdf after its _register_font call: every exception
\* is wrapped in RuntimeError.  c.save() writes straight to output_path (the
\* file "grid" of the disk): a failure while it writes leaves the file
\* incomplete.
generate_calibration_pdf(fault, fontRaised, d) ==
    IF fontRaised THEN Outcome("RuntimeError", "font", d, FALSE, NoPath, EmptyData)
    ELSE IF fault.at = "draw" THEN Outcome("RuntimeError", "draw", d, FALSE, NoPath, EmptyData)
    ELSE IF fault.at = "save_open"
    THEN Outcome("RuntimeError", "save", d, FALSE, NoPath, EmptyData)
    ELSE IF fault.at = "save_write"
    THEN Outcome("RuntimeError", "save", [d EXCEPT !["grid"] = PartialFile], FALSE,
                 NoPath, EmptyData)
    ELSE Outcome("ok", "none", [d EXCEPT !["grid"] = GridFile], FALSE,
                 abspath([abs |-> TRUE, name |-> "grid"]), EmptyData)

(***************************************************************************)
(* Entry texts.  The text of an entry widget is a decimal numeral (kept    *)
(* by its value in 1/100 mm), the empty text, or a text float() rejects.   *)
(***************************************************************************)
Num(v) == [kind |-> "num", val |-> v]

EmptyText == [kind |-> "empty", val |-> 0]

BadText == [kind |-> "bad", val |-> 0]

\* entry.get() or "0": the empty text is replaced by the numeral 0.
OrZero(text) == IF text.kind = "empty" THEN Num(0) ELSE text

\* float(text): the value of a numeral; ValueError (ok = FALSE) otherwise,
\* the empty text included.
float(text) ==
    IF text.kind = "num" THEN [ok |-> TRUE, val |-> text.val]
    ELSE [ok |-> FALSE, val |-> 0]

\* val rounded to a multiple of 0.1 mm, a tie going to the even tenth.  The
\* values formatted here are multiples of 0.25 mm or of 0.1 mm apart from
\* float error far below 0.05 mm, so every tie is an exact binary value.
RoundTenth(val) ==
    LET r == val % 10
        lo == val - r
    IN  IF r < 5 THEN lo
        ELSE IF r > 5 THEN lo + 10
        ELSE IF (lo \div 10) % 2 = 0 THEN lo ELSE lo + 10

\* f"{val:.1f}": the numeral of val with one decimal.
Format1f(val) == Num(RoundTenth(val))

(***************************************************************************)
(* The calibration preview window (calibration_preview.py).                *)
(***************************************************************************)
\* The nudge buttons: -1, -0.5, +0.5, +1 mm.
Deltas == {Mm(0 - 1), 0 - 50, 50, Mm(1)}

Axes == {"x", "y"}

\* What the operator types into an offset entry of the preview: "0.25", the
\* empty text, a text that is no number.
PreviewTyped == {Num(25), EmptyText, BadText}

\* The paper of the preview (Kertas F4), in mm.
F4_W == 215

F4_H == 330

\* The window after __init__: the stored offset, the two entries showing it
\* with one decimal, the injected callback (hasCallback: not None), and the
\* first drawing.  drawn is the offset pair the last _draw displayed, page
\* the width and height in mm of the paper it outlined, dotted and flipped Y
\* against; redrawn tells whether the last handler reached _draw.
CalibrationPreview(offset_x, offset_y, hasCallback) ==
    [offset_x |-> offset_x, offset_y |-> offset_y,
     entry_ox |-> Format1f(offset_x), entry_oy |-> Format1f(offset_y),
     hasCallback |-> hasCallback,
     drawn |-> <<offset_x, offset_y>>, page |-> <<F4_W, F4_H>>, redrawn |-> TRUE]

\* _draw: the canvas is cleared and drawn with the stored offset on the F4
\* paper.
_draw(s) ==
    [s EXCEPT !.drawn = <<s.offset_x, s.offset_y>>, !.page = <<F4_W, F4_H>>,
              !.redrawn = TRUE]

\* _on_update: the X entry is parsed and stored, then the Y entry; the
\* first ValueError ends the handler without a redraw.
_on_update(s) ==
    LET x == float(OrZero(s.entry_ox))
        y == float(OrZero(s.entry_oy))
    IN  IF ~x.ok THEN s
        ELSE IF ~y.ok THEN [s EXCEPT !.offset_x = x.val]
        ELSE _draw([s EXCEPT !.offset_x = x.val, !.offset_y = y.val])

\* _nudge: the entry of the axis is read (0.0 if it is no number), delta is
\* added, the entry is rewritten with one decimal, then _on_update runs.
_nudge(s, axis, delta) ==
    LET entry == IF axis = "x" THEN s.entry_ox ELSE s.entry_oy
        parsed == float(OrZero(entry))
        val == (IF parsed.ok THEN parsed.val ELSE 0) + delta
        s1 == IF axis = "x" THEN [s EXCEPT !.entry_ox = Format1f(val), !.redrawn = FALSE]
                            ELSE [s EXCEPT !.entry_oy = Format1f(val), !.redrawn = FALSE]
    IN  _on_update(s1)

\* _on_print_click: _on_update, then the callback, if one was injected, is
\* called with the stored offset.  The result is the window and the calls.
_on_print_click(s) ==
    LET s1 == _on_update([s EXCEPT !.redrawn = FALSE])
    IN  [pv |-> s1,
         calls |-> IF s1.hasCallback
                   THEN << [ox |-> s1.offset_x, oy |-> s1.offset_y] >>
                   ELSE << >>]

\* get_offsets
get_offsets(s) == [x |-> s.offset_x, y |-> s.offset_y]

\* The main window's last handler, before any has run.
NoHandler ==
    [handler |-> "none", dialog |-> << >>, generated |-> FALSE, opened |-> NoPath,
     raised |-> "none"]

\* The last database call, before any is made.
NoDbCall ==
    [op |-> "none", id |-> "no uuid", ok |-> TRUE, exc |-> "none", flag |-> FALSE,
     records |-> << >>,
     arg |-> << >>, count |-> 0 - 1, at |-> 0]

\* At most MaxScans full scans of the candidate list are counted.
MaxScans == 2

\* Concurrent render calls in SpecRace.
MaxThreads == 2

Threads == 1..MaxThreads

VARIABLES
    dField,     \* the field drawn (index into the layout)
    dText,      \* the text drawn
    dOx, dOy,   \* the calibration offset
    dCanvas,    \* the renderer's canvas after drawing the field
    dCanvas0,   \* the same field and text drawn with offset (0, 0)
    dMarks,     \* the preview's marker run
    dDone,      \* which components have drawn: subset of {"render", "preview"}
    fontEnv,            \* the candidate font files
    _FONT_REGISTERED,   \* the module's flag
    nIsfile,            \* os.path.isfile calls on candidates so far
    nRegisterFont,      \* successful pdfmetrics.registerFont calls so far
    disk,       \* the file at each path
    last,       \* the last render call: its inputs and how it ended
    tpc,        \* SpecRace: where each thread is in _register_font
    tidx,       \* SpecRace: the candidate each thread is at
    tChecked,   \* SpecRace: candidates each thread has checked
    pv,         \* the calibration preview window: stored offset, entries, drawing
    pvCalls,    \* on_print_calibration calls made by the preview's last handler
    entry_offset_x, entry_offset_y,     \* the main window's offset entries
    selected,   \* the main window's table has a selected row
    tree,       \* the uuids of the lines of the main window's table
    ui,         \* the main window's last handler: dialog shown, file opened
    gW, gH,     \* the page size the calibration grid is drawn for
    gDots,      \* the grid's dots
    gLabels,    \* the grid's coordinate labels
    gDone,      \* the grid has been drawn
    rows,       \* table ritual_forms, in rowid order
    nextId,     \* the next AUTOINCREMENT id
    clock,      \* the wall clock, in seconds
    dbLast,     \* the last database call: its arguments and result
    dbCalls     \* database calls so far

drawVars == <<dField, dText, dOx, dOy, dCanvas, dCanvas0, dMarks, dDone>>

fontVars == <<fontEnv, _FONT_REGISTERED, nIsfile, nRegisterFont>>

renderVars == <<disk, last>>

raceVars == <<tpc, tidx, tChecked>>

previewVars == <<pv, pvCalls>>

appVars == <<entry_offset_x, entry_offset_y, selected, tree, ui>>

gridVars == <<gW, gH, gDots, gLabels, gDone>>

dbVars == <<rows, nextId, clock, dbLast, dbCalls>>

vars == <<drawVars, fontVars, renderVars, raceVars, previewVars, appVars, gridVars, dbVars>>

NoCall ==
    [op |-> "none", status |-> "none", cause |-> "none", data |-> EmptyData,
     ox |-> 0, oy |-> 0, tmpl |-> "absent", overlayMade |-> FALSE,
     path |-> NoPath, ret |-> NoPath, dataAfter |-> EmptyData]

\* The parts of the state a specification does not use.
DrawIdle ==
    /\ dField = 1 /\ dText = <<>> /\ dOx = 0 /\ dOy = 0
    /\ dCanvas = NewCanvas /\ dCanvas0 = NewCanvas /\ dMarks = <<>> /\ dDone = {}

FontIdle ==
    /\ fontEnv = [i \in 1..NumCandidates |-> "missing"]
    /\ _FONT_REGISTERED = FALSE /\ nIsfile = 0 /\ nRegisterFont = 0

RenderIdle ==
    /\ disk = [p \in Paths |-> NoFile] /\ last = NoCall

RaceIdle ==
    /\ tpc = [t \in Threads |-> "start"]
    /\ tidx = [t \in Threads |-> 1]
    /\ tChecked = [t \in Threads |-> 0]

PreviewIdle ==
    /\ pv = CalibrationPreview(0, 0, FALSE) /\ pvCalls = <<>>

AppIdle ==
    /\ entry_offset_x = Num(0) /\ entry_offset_y = Num(0)
    /\ selected = FALSE /\ tree = {} /\ ui = NoHandler

GridIdle ==
    /\ gW = 0 /\ gH = 0 /\ gDots = {} /\ gLabels = {} /\ gDone = FALSE

DbIdle ==
    /\ rows = <<>> /\ nextId = 1 /\ clock = 0 /\ dbLast = NoDbCall /\ dbCalls = 0

(***************************************************************************)
(* SpecDraw: the placement routines applied to every field, text, offset.  *)
(***************************************************************************)
InitDraw ==
    /\ dField \in 1..NumFields
    /\ dText \in Texts
    /\ dOx \in Offsets
    /\ dOy \in Offsets
    /\ dCanvas = NewCanvas
    /\ dCanvas0 = NewCanvas
    /\ dMarks = <<>>
    /\ dDone = {}
    /\ FontIdle /\ RenderIdle /\ RaceIdle
    /\ PreviewIdle /\ AppIdle /\ GridIdle /\ DbIdle

\* The renderer draws a vertical field.
DrawVertical ==
    /\ "render" \notin dDone
    /\ SITES[dField].vertical
    /\ dCanvas' = RenderField(dField, NewCanvas, dText, dOx, dOy)
    /\ dCanvas0' = RenderField(dField, NewCanvas, dText, 0, 0)
    /\ dDone' = dDone \cup {"render"}
    /\ UNCHANGED <<dField, dText, dOx, dOy, dMarks, fontVars, renderVars, raceVars,
                 previewVars, appVars, gridVars, dbVars>>

\* The renderer draws a horizontal field.
DrawHorizontal ==
    /\ "render" \notin dDone
    /\ ~SITES[dField].vertical
    /\ dCanvas' = RenderField(dField, NewCanvas, dText, dOx, dOy)
    /\ dCanvas0' = RenderField(dField, NewCanvas, dText, 0, 0)
    /\ dDone' = dDone \cup {"render"}
    /\ UNCHANGED <<dField, dText, dOx, dOy, dMarks, fontVars, renderVars, raceVars,
                 previewVars, appVars, gridVars, dbVars>>

\* The preview draws the marker run of the field.
PreviewField ==
    /\ "preview" \notin dDone
    /\ dMarks' = _draw_field(FIELDS[dField], dText, dOx, dOy)
    /\ dDone' = dDone \cup {"preview"}
    /\ UNCHANGED <<dField, dText, dOx, dOy, dCanvas, dCanvas0, fontVars, renderVars, raceVars,
                 previewVars, appVars, gridVars, dbVars>>

NextDraw == DrawVertical \/ DrawHorizontal \/ PreviewField

SpecDraw == InitDraw /\ [][NextDraw]_vars

(***************************************************************************)
(* Spec: render calls made one after another (the application is           *)
(* single-threaded).  The state of the template file at the time of a call *)
(* and the fault the call meets are inputs of the call.                    *)
(***************************************************************************)
Init ==
    /\ fontEnv \in SeqFontEnvs
    /\ _FONT_REGISTERED = FALSE
    /\ nIsfile = 0
    /\ nRegisterFont = 0
    /\ disk = [p \in Paths |-> NoFile]
    /\ last = NoCall
    /\ DrawIdle /\ RaceIdle
    /\ PreviewIdle /\ AppIdle /\ GridIdle /\ DbIdle

\* One call of generate_pdf(data, output_path, offset_x, offset_y).
GeneratePdf ==
    \E job \in Jobs, tmpl \in TemplateStates, fault \in Faults :
        LET reg == _register_font(_FONT_REGISTERED, fontEnv)
            res == generate_pdf(job.data, job.path, job.ox, job.oy, fault, reg.raised,
                                tmpl, disk)
        IN  /\ nIsfile + reg.checked <= MaxScans * NumCandidates
            /\ _FONT_REGISTERED' = reg.registered
            /\ nIsfile' = nIsfile + reg.checked
            /\ nRegisterFont' = nRegisterFont + reg.registrations
            /\ disk' = res.disk
            /\ last' = [op |-> "generate_pdf", status |-> res.status, cause |-> res.cause,
                        data |-> job.data, ox |-> job.ox, oy |-> job.oy, tmpl |-> tmpl,
                        overlayMade |-> res.overlayMade, path |-> job.path,
                        ret |-> res.ret, dataAfter |-> res.data]
            /\ UNCHANGED <<fontEnv, drawVars, raceVars,
                 previewVars, appVars, gridVars, dbVars>>

\* One call of generate_calibration_pdf(output_path).
GenerateCalibrationPdf ==
    \E fault \in {f \in Faults : f.at \in {"none", "draw", "save_open", "save_write"}} :
        LET reg == _register_font(_FONT_REGISTERED, fontEnv)
            res == generate_calibration_pdf(fault, reg.raised, disk)
        IN  /\ nIsfile + reg.checked <= MaxScans * NumCandidates
            /\ _FONT_REGISTERED' = reg.registered
            /\ nIsfile' = nIsfile + reg.checked
            /\ nRegisterFont' = nRegisterFont + reg.registrations
            /\ disk' = res.disk
            /\ last' = [op |-> "generate_calibration_pdf", status |-> res.status,
                        cause |-> res.cause, data |-> EmptyData, ox |-> 0, oy |-> 0,
                        tmpl |-> "absent", overlayMade |-> FALSE,
                        path |-> [abs |-> TRUE, name |-> "grid"],
                        ret |-> res.ret, dataAfter |-> res.data]
            /\ UNCHANGED <<fontEnv, drawVars, raceVars,
                 previewVars, appVars, gridVars, dbVars>>

Next == GeneratePdf \/ GenerateCalibrationPdf

Spec == Init /\ [][Next]_vars

(***************************************************************************)
(* SpecOverlay: render calls that meet no failure, over records whose      *)
(* combined fields have every mix of empty and non-empty parts.            *)
(***************************************************************************)
OverlayParts == {<<>>, <<"A">>, <<"B", "A">>}

OverlayData ==
    { [panggilan |-> p, nama_mandarin |-> m, dari |-> d, keterangan |-> k,
       tahun_lunar |-> <<"A">>, bulan_lunar |-> <<>>, hari_lunar |-> <<"B">>] :
      p \in OverlayParts, m \in OverlayParts, d \in OverlayParts, k \in OverlayParts }

OverlayOffsets == {<<0, 0>>, <<50, -100>>}

InitOverlay ==
    /\ fontEnv = [i \in 1..NumCandidates |-> IF i = 1 THEN "ok" ELSE "missing"]
    /\ _FONT_REGISTERED = FALSE
    /\ nIsfile = 0
    /\ nRegisterFont = 0
    /\ disk = [p \in Paths |-> NoFile]
    /\ last = NoCall
    /\ DrawIdle /\ RaceIdle
    /\ PreviewIdle /\ AppIdle /\ GridIdle /\ DbIdle

\* One call of generate_pdf(data, "out", offset_x, offset_y) with the template
\* in place.
GeneratePdfCombined ==
    \E data \in OverlayData, offset \in OverlayOffsets :
        LET reg == _register_font(_FONT_REGISTERED, fontEnv)
            path == [abs |-> FALSE, name |-> "out"]
            res == generate_pdf(data, path, offset[1], offset[2], NoFault, reg.raised,
                                "ok", disk)
        IN  /\ _FONT_REGISTERED' = reg.registered
            /\ nIsfile' = nIsfile + reg.checked
            /\ nRegisterFont' = nRegisterFont + reg.registrations
            /\ disk' = res.disk
            /\ last' = [op |-> "generate_pdf", status |-> res.status, cause |-> res.cause,
                        data |-> data, ox |-> offset[1], oy |-> offset[2], tmpl |-> "ok",
                        overlayMade |-> res.overlayMade, path |-> path,
                        ret |-> res.ret, dataAfter |-> res.data]
            /\ UNCHANGED <<fontEnv, drawVars, raceVars,
                 previewVars, appVars, gridVars, dbVars>>

NextOverlay == GeneratePdfCombined

SpecOverlay == InitOverlay /\ [][NextOverlay]_vars

(***************************************************************************)
(* SpecRace: several threads inside _register_font at once.  A step is one *)
(* statement of the function: the test of the flag, an os.path.isfile      *)
(* check, a registerFont call, the assignment of the flag.                 *)
(***************************************************************************)
InitRace ==
    /\ fontEnv \in FontEnvs
    /\ _FONT_REGISTERED = FALSE
    /\ nIsfile = 0
    /\ nRegisterFont = 0
    /\ RaceIdle /\ DrawIdle /\ RenderIdle
    /\ PreviewIdle /\ AppIdle /\ GridIdle /\ DbIdle

\* if _FONT_REGISTERED: return
TestFlag(t) ==
    /\ tpc[t] = "start"
    /\ tpc' = [tpc EXCEPT ![t] = IF _FONT_REGISTERED THEN "done" ELSE "scan"]
    /\ UNCHANGED <<tidx, tChecked, fontVars, drawVars, renderVars,
                 previewVars, appVars, gridVars, dbVars>>

\* for font_path in _FONT_CANDIDATES: if os.path.isfile(font_path)
CheckCandidate(t) ==
    /\ tpc[t] = "scan"
    /\ tidx[t] <= NumCandidates
    /\ nIsfile' = nIsfile + 1
    /\ tChecked' = [tChecked EXCEPT ![t] = @ + 1]
    /\ IF fontEnv[tidx[t]] = "missing"
       THEN /\ tidx' = [tidx EXCEPT ![t] = @ + 1]
            /\ tpc' = tpc
       ELSE /\ tpc' = [tpc EXCEPT ![t] = "load"]
            /\ tidx' = tidx
    /\ UNCHANGED <<fontEnv, _FONT_REGISTERED, nRegisterFont, drawVars, renderVars,
                 previewVars, appVars, gridVars, dbVars>>

\* A faulty variant: a candidate that fails to load ends the scan with the
\* error instead of being skipped.
LoadCandidateOrRaise(t) ==
    /\ tpc[t] = "load"
    /\ IF fontEnv[tidx[t]] = "ok"
       THEN /\ nRegisterFont' = nRegisterFont + 1
            /\ tpc' = [tpc EXCEPT ![t] = "set"]
       ELSE /\ nRegisterFont' = nRegisterFont
            /\ tpc' = [tpc EXCEPT ![t] = "raised"]
    /\ UNCHANGED <<fontEnv, _FONT_REGISTERED, nIsfile, tidx, tChecked, drawVars, renderVars,
                 previewVars, appVars, gridVars, dbVars>>

\* pdfmetrics.registerFont(TTFont(FONT_NAME, font_path)), or its exception
LoadCandidate(t) ==
    /\ tpc[t] = "load"
    /\ IF fontEnv[tidx[t]] = "ok"
       THEN /\ nRegisterFont' = nRegisterFont + 1
            /\ tpc' = [tpc EXCEPT ![t] = "set"]
            /\ tidx' = tidx
       ELSE /\ nRegisterFont' = nRegisterFont
            /\ tpc' = [tpc EXCEPT ![t] = "scan"]
            /\ tidx' = [tidx EXCEPT ![t] = @ + 1]
    /\ UNCHANGED <<fontEnv, _FONT_REGISTERED, nIsfile, tChecked, drawVars, renderVars,
                 previewVars, appVars, gridVars, dbVars>>

\* _FONT_REGISTERED = True; return
SetFlag(t) ==
    /\ tpc[t] = "set"
    /\ _FONT_REGISTERED' = TRUE
    /\ tpc' = [tpc EXCEPT ![t] = "done"]
    /\ UNCHANGED <<fontEnv, nIsfile, nRegisterFont, tidx, tChecked, drawVars, renderVars,
                 previewVars, appVars, gridVars, dbVars>>

\* raise FileNotFoundError(...)
RaiseNotFound(t) ==
    /\ tpc[t] = "scan"
    /\ tidx[t] > NumCandidates
    /\ tpc' = [tpc EXCEPT ![t] = "raised"]
    /\ UNCHANGED <<tidx, tChecked, fontVars, drawVars, renderVars,
                 previewVars, appVars, gridVars, dbVars>>

NextRace ==
    \E t \in Threads :
        \/ TestFlag(t)
        \/ CheckCandidate(t)
        \/ LoadCandidate(t)
        \/ SetFlag(t)
        \/ RaiseNotFound(t)

SpecRace == InitRace /\ [][NextRace]_vars

(***************************************************************************)
(* SpecPreview: the calibration preview window under its operator.         *)
(***************************************************************************)
\* Nudged entries stay between 0 and MaxShift mm.
MaxShift == 1

InitPreview ==
    /\ \E hasCallback \in BOOLEAN :
           pv = CalibrationPreview(0, 0, hasCallback)
    /\ pvCalls = << >>
    /\ DrawIdle /\ FontIdle /\ RenderIdle /\ RaceIdle
    /\ AppIdle /\ GridIdle /\ DbIdle

\* The operator replaces the text of an offset entry; no handler runs.
TypeEntry ==
    \E axis \in Axes, text \in PreviewTyped :
        /\ pv' = IF axis = "x" THEN [pv EXCEPT !.entry_ox = text, !.redrawn = FALSE]
                               ELSE [pv EXCEPT !.entry_oy = text, !.redrawn = FALSE]
        /\ pvCalls' = << >>
        /\ UNCHANGED <<drawVars, fontVars, renderVars, raceVars, appVars, gridVars, dbVars>>

\* A nudge button is clicked.
Nudge ==
    \E axis \in Axes, delta \in Deltas :
        LET s == _nudge(pv, axis, delta)
            entry == IF axis = "x" THEN s.entry_ox ELSE s.entry_oy
        IN  /\ entry.val >= 0 /\ entry.val <= Mm(MaxShift)
            /\ pv' = s
            /\ pvCalls' = << >>
            /\ UNCHANGED <<drawVars, fontVars, renderVars, raceVars, appVars, gridVars, dbVars>>

\* The Update Preview button is clicked.
OnUpdate ==
    /\ pv' = _on_update([pv EXCEPT !.redrawn = FALSE])
    /\ pvCalls' = << >>
    /\ UNCHANGED <<drawVars, fontVars, renderVars, raceVars, appVars, gridVars, dbVars>>

\* The print button is clicked.
OnPrintClick ==
    LET r == _on_print_click(pv)
    IN  /\ pv' = r.pv
        /\ pvCalls' = r.calls
        /\ UNCHANGED <<drawVars, fontVars, renderVars, raceVars, appVars, gridVars, dbVars>>

NextPreview == TypeEntry \/ Nudge \/ OnUpdate \/ OnPrintClick

SpecPreview == InitPreview /\ [][NextPreview]_vars

(***************************************************************************)
(* SpecApp: the main window's print action (main.py).                      *)
(***************************************************************************)
\* What the operator types into an offset entry of the main window: "1.5",
\* the empty text, a text that is no number.
MainTyped == {Num(150), EmptyText, BadText}

\* The font environments of SpecApp: the first candidate loads, or every
\* candidate is missing.
AppFontEnvs ==
    {env \in SeqFontEnvs : env[1] = "ok" \/ \A i \in 1..NumCandidates : env[i] = "missing"}

\* The failures of SpecApp: none, or the output directory is gone when the
\* overlay is saved.
AppFaults == {f \in Faults : f.at \in {"none", "save_open"}}

\* The template file of SpecApp is in place or absent.
AppTemplates == {"ok", "absent"}

\* messagebox.showwarning / showinfo / showerror
Dialog(kind, title) == [kind |-> kind, title |-> title]

\* A faulty variant: an entry that is no number counts as 0.
ParseOffsetsLenient(ex, ey) ==
    [ok |-> TRUE, x |-> float(OrZero(ex)).val, y |-> float(OrZero(ey)).val]

\* _on_print's try block around the two float() calls: ok = FALSE when
\* either raises ValueError.
ParseOffsets(ex, ey) ==
    LET x == float(OrZero(ex))
        y == float(OrZero(ey))
    IN  [ok |-> x.ok /\ y.ok, x |-> x.val, y |-> y.val]

\* _open_file: an OSError of the platform's opener is shown as a warning.
_open_file(openOk) ==
    IF openOk THEN << >> ELSE << Dialog("warning", "Gagal Membuka File") >>

InitApp ==
    /\ entry_offset_x = Num(0)
    /\ entry_offset_y = Num(0)
    /\ selected = FALSE
    /\ tree = {}
    /\ ui = NoHandler
    /\ fontEnv \in AppFontEnvs
    /\ _FONT_REGISTERED = FALSE
    /\ nIsfile = 0
    /\ nRegisterFont = 0
    /\ disk = [p \in Paths |-> NoFile]
    /\ last = NoCall
    /\ DrawIdle /\ RaceIdle /\ PreviewIdle /\ GridIdle /\ DbIdle

\* The operator replaces the text of an offset entry; no handler runs.
TypeOffset ==
    \E axis \in Axes, text \in MainTyped :
        /\ entry_offset_x' = IF axis = "x" THEN text ELSE entry_offset_x
        /\ entry_offset_y' = IF axis = "y" THEN text ELSE entry_offset_y
        /\ ui' = NoHandler
        /\ UNCHANGED <<selected, tree, drawVars, fontVars, renderVars, raceVars,
                       previewVars, gridVars, dbVars>>

\* The operator selects a row of the table, or clears the selection.
SelectRow ==
    /\ selected' = ~selected
    /\ ui' = NoHandler
    /\ UNCHANGED <<entry_offset_x, entry_offset_y, tree, drawVars, fontVars,
                   renderVars, raceVars, previewVars, gridVars, dbVars>>

\* _on_print: the Cetak button is clicked.
OnPrint ==
    \E tmpl \in AppTemplates, fault \in AppFaults, openOk \in BOOLEAN :
        LET off == ParseOffsets(entry_offset_x, entry_offset_y)
            reg == _register_font(_FONT_REGISTERED, fontEnv)
            res == generate_pdf(DataSparse, [abs |-> TRUE, name |-> "out"], off.x, off.y,
                                fault, reg.raised, tmpl, disk)
        IN  IF ~selected
            THEN /\ ui' = [handler |-> "_on_print", generated |-> FALSE, opened |-> NoPath,
                           raised |-> "none",
                           dialog |-> << Dialog("warning", "Tidak Ada Pilihan") >>]
                 /\ UNCHANGED <<fontVars, renderVars>>
                 /\ UNCHANGED <<entry_offset_x, entry_offset_y, selected, tree, drawVars,
                                raceVars, previewVars, gridVars, dbVars>>
            ELSE IF ~off.ok
            THEN /\ ui' = [handler |-> "_on_print", generated |-> FALSE, opened |-> NoPath,
                           raised |-> "none",
                           dialog |-> << Dialog("warning", "Offset Tidak Valid") >>]
                 /\ UNCHANGED <<fontVars, renderVars>>
                 /\ UNCHANGED <<entry_offset_x, entry_offset_y, selected, tree, drawVars,
                                raceVars, previewVars, gridVars, dbVars>>
            ELSE /\ nIsfile + reg.checked <= MaxScans * NumCandidates
                 /\ _FONT_REGISTERED' = reg.registered
                 /\ nIsfile' = nIsfile + reg.checked
                 /\ nRegisterFont' = nRegisterFont + reg.registrations
                 /\ disk' = res.disk
                 /\ last' = [op |-> "generate_pdf", status |-> res.status,
                             cause |-> res.cause, data |-> DataSparse, ox |-> off.x,
                             oy |-> off.y, tmpl |-> tmpl,
                             overlayMade |-> res.overlayMade,
                             path |-> [abs |-> TRUE, name |-> "out"],
                             ret |-> res.ret, dataAfter |-> res.data]
                 /\ ui' = [handler |-> "_on_print", generated |-> TRUE,
                           opened |-> res.ret, raised |-> "none",
                           dialog |->
                               IF res.status = "ok"
                               THEN << Dialog("info", "PDF Berhasil") >> \o _open_file(openOk)
                               ELSE IF res.status = "FileNotFoundError"
                               THEN << Dialog("error", "Font Tidak Ditemukan") >>
                               ELSE << Dialog("error", "Gagal Membuat PDF") >>]
                 /\ UNCHANGED <<fontEnv, entry_offset_x, entry_offset_y, selected, tree,
                                drawVars, raceVars, previewVars, gridVars, dbVars>>

\* The failures of the grid print in SpecApp: none, the output directory is
\* gone, or the write of the grid file breaks off.
GridFaults == {f \in Faults : f.at \in {"none", "save_open", "save_write"}}

\* _on_calibration_print: the Cetak Grid Kalibrasi button is clicked.
OnCalibrationPrint ==
    \E fault \in GridFaults, openOk \in BOOLEAN :
        LET reg == _register_font(_FONT_REGISTERED, fontEnv)
            res == generate_calibration_pdf(fault, reg.raised, disk)
        IN  /\ nIsfile + reg.checked <= MaxScans * NumCandidates
            /\ _FONT_REGISTERED' = reg.registered
            /\ nIsfile' = nIsfile + reg.checked
            /\ nRegisterFont' = nRegisterFont + reg.registrations
            /\ disk' = res.disk
            /\ last' = [op |-> "generate_calibration_pdf", status |-> res.status,
                        cause |-> res.cause, data |-> EmptyData, ox |-> 0, oy |-> 0,
                        tmpl |-> "absent", overlayMade |-> FALSE,
                        path |-> [abs |-> TRUE, name |-> "grid"],
                        ret |-> res.ret, dataAfter |-> res.data]
            /\ ui' = [handler |-> "_on_calibration_print", generated |-> TRUE,
                      opened |-> res.ret, raised |-> "none",
                      dialog |->
                          IF res.status = "ok"
                          THEN << Dialog("info", "Kalibrasi") >> \o _open_file(openOk)
                          ELSE << Dialog("error", "Gagal") >>]
            /\ UNCHANGED <<fontEnv, entry_offset_x, entry_offset_y, selected, tree,
                           drawVars, raceVars, previewVars, gridVars, dbVars>>

NextApp == TypeOffset \/ SelectRow \/ OnPrint \/ OnCalibrationPrint

SpecApp == InitApp /\ [][NextApp]_vars

(***************************************************************************)
(* SpecGrid: the dot grid of generate_calibration_pdf, for the A4 page it  *)
(* is written for and for other page sizes.                                *)
(***************************************************************************)
A4_WIDTH_MM == 210

A4_HEIGHT_MM == 297

\* Page sides other than A4's run over the multiples of 5 mm up to
\* 5 * MaxGrid mm.
MaxGrid == 12

GridSides == {5 * k : k \in 0..MaxGrid}

\* The page of the documents generate_pdf and generate_calibration_pdf make
\* (the pagesize of their canvas), width and height in mm.
PageSize == <<A4_WIDTH_MM, A4_HEIGHT_MM>>

PageSizes == {<<A4_WIDTH_MM, A4_HEIGHT_MM>>} \cup (GridSides \X GridSides)

\* range(start, stop, step) for step > 0.
range(start, stop, step) ==
    IF stop <= start THEN {}
    ELSE {start + k * step : k \in 0..((stop - start - 1) \div step)}

\* A faulty variant: the loops stop before the page's far edge.
GridDotsExclusive(W, H) ==
    {<<x, y>> : x \in range(0, W, 10), y \in range(0, H, 10)}

\* The c.circle calls of the two nested loops, by their position in mm.
GridDots(W, H) ==
    {<<x, y>> : x \in range(0, W + 1, 10), y \in range(0, H + 1, 10)}

\* The c.drawString calls inside the loops: the label "x,y" drawn 2 pt right
\* of and above the dot at (x, y) when both are multiples of 50.
GridLabels(W, H) ==
    {[x |-> x, y |-> y, px |-> mm(Mm(x)) + 2 * 12700, py |-> mm(Mm(y)) + 2 * 12700,
      text |-> <<x, y>>] :
        x \in {a \in range(0, W + 1, 10) : a % 50 = 0},
        y \in {b \in range(0, H + 1, 10) : b % 50 = 0}}

InitGrid ==
    /\ \E size \in PageSizes : gW = size[1] /\ gH = size[2]
    /\ gDots = {} /\ gLabels = {} /\ gDone = FALSE
    /\ DrawIdle /\ FontIdle /\ RenderIdle /\ RaceIdle
    /\ PreviewIdle /\ AppIdle /\ DbIdle

\* The grid loops of generate_calibration_pdf run.
DrawGrid ==
    /\ ~gDone
    /\ gDots' = GridDots(gW, gH)
    /\ gLabels' = GridLabels(gW, gH)
    /\ gDone' = TRUE
    /\ UNCHANGED <<gW, gH, drawVars, fontVars, renderVars, raceVars, previewVars,
                   appVars, dbVars>>

NextGrid == DrawGrid

SpecGrid == InitGrid /\ [][NextGrid]_vars

(***************************************************************************)
(* SpecDb: the record store (database.py).  Table ritual_forms is the      *)
(* sequence of its rows in rowid order; a row is its id, its uuid, its     *)
(* created_at second and its ten text columns.                             *)
(***************************************************************************)
\* At most MaxRows rows are stored, the clock runs to second MaxClock, and
\* MaxDbCalls calls are made.
MaxRows == 3

MaxClock == 1

MaxDbCalls == 4

\* The values uuid.uuid4() can return.
Uuids == {"u1", "u2", "u3"}

\* Python's None, stored as NULL.  The texts of the store are sequences of
\* one-character strings; None is kept apart from every text.
None == << "None" >>

\* No count: the call returns none, or raised.
NoCount == 0 - 1

\* No uuid: the call raised, or takes none.
NoUuid == "no uuid"

\* Keyword arguments of insert_record: all ten given; only the required
\* three given (the others default to ""); panggilan given as None.
RecordFull ==
    [panggilan |-> <<"p">>, nama_mandarin |-> <<"m">>, dari |-> <<"d">>,
     nama |-> <<"n">>, penyebutan |-> <<"s">>, keluarga |-> <<"k">>,
     keterangan |-> <<"t">>, tahun_lunar |-> <<"y">>, bulan_lunar |-> <<"b">>,
     hari_lunar |-> <<"h">>]

RecordRequired ==
    [panggilan |-> <<"p">>, nama_mandarin |-> <<"m">>, dari |-> <<"d">>,
     nama |-> << >>, penyebutan |-> << >>, keluarga |-> << >>, keterangan |-> << >>,
     tahun_lunar |-> << >>, bulan_lunar |-> << >>, hari_lunar |-> << >>]

RecordNone == [RecordRequired EXCEPT !.panggilan = None]

RecordInputs == {RecordFull, RecordRequired, RecordNone}

\* The database file at the time of a call: it works; it cannot be opened
\* (sqlite3.connect raises); it opens but the statement raises an
\* sqlite3.Error of its own (no table, a locked or damaged file).
DbStates == {"ok", "unopenable", "failing"}

\* What a call raises on a database in state db, before it changes anything.
\* _get_connection turns the sqlite3.Error of connect into RuntimeError,
\* which the caller's `except sqlite3.Error` does not catch; the caller's
\* `finally: conn.close()` then raises UnboundLocalError, conn never having
\* been bound.  An sqlite3.Error of the statement is raised as RuntimeError.
DbRaises(db) ==
    IF db = "unopenable" THEN "UnboundLocalError"
    ELSE IF db = "failing" THEN "RuntimeError"
    ELSE "none"

\* The uuid column is UNIQUE; uuid, panggilan, nama_mandarin and dari are
\* NOT NULL.
ConstraintsHold(tbl, uuid, data) ==
    /\ \A i \in 1..Len(tbl) : tbl[i].uuid # uuid
    /\ data.panggilan # None /\ data.nama_mandarin # None /\ data.dari # None

\* A faulty variant: the uuid drawn is stored without the UNIQUE check.
InsertRecordNoUnique(tbl, id, uuid, now, data, db) ==
    [ok |-> TRUE, exc |-> "none", uuid |-> uuid,
     rows |-> Append(tbl, [id |-> id, uuid |-> uuid, created_at |-> now,
                           data |-> data])]

\* insert_record with uuid4() = uuid and datetime.now() in second now, on a
\* database in state db.  A violated constraint raises RuntimeError (from
\* sqlite3.IntegrityError); a call that raises stores nothing.
insert_record(tbl, id, uuid, now, data, db) ==
    IF db # "ok"
    THEN [ok |-> FALSE, exc |-> DbRaises(db), uuid |-> NoUuid, rows |-> tbl]
    ELSE IF ~ConstraintsHold(tbl, uuid, data)
    THEN [ok |-> FALSE, exc |-> "RuntimeError", uuid |-> NoUuid, rows |-> tbl]
    ELSE [ok |-> TRUE, exc |-> "none", uuid |-> uuid,
          rows |-> Append(tbl, [id |-> id, uuid |-> uuid, created_at |-> now,
                                data |-> data])]

\* get_all_records: the outcomes the call can have.  On a working database,
\* the results SELECT * ... ORDER BY created_at DESC may return: every
\* arrangement of the rows with created_at non-increasing (SQL leaves the
\* order of rows with equal created_at open).  Otherwise it raises.
get_all_records(tbl, db) ==
    IF db # "ok"
    THEN { [exc |-> DbRaises(db), records |-> << >>] }
    ELSE { [exc |-> "none", records |-> [i \in 1..Len(tbl) |-> tbl[f[i]]]] :
             f \in { g \in Permutations(1..Len(tbl)) :
                       \A i, j \in 1..Len(tbl) :
                           i < j => tbl[g[i]].created_at >= tbl[g[j]].created_at } }

\* get_record_by_uuid: the row as a one-element sequence, << >> for None;
\* or the exception raised.
get_record_by_uuid(tbl, uuid, db) ==
    [exc |-> DbRaises(db),
     records |-> IF db = "ok" THEN SelectSeq(tbl, LAMBDA r : r.uuid = uuid) ELSE << >>]

\* A faulty variant: the call reports success whether or not a row matched.
DeleteRecordAlwaysTrue(tbl, uuid, db) ==
    [ok |-> db = "ok", exc |-> DbRaises(db),
     flag |-> db = "ok",
     rows |-> IF db = "ok" THEN SelectSeq(tbl, LAMBDA r : r.uuid # uuid) ELSE tbl]

\* delete_record: DELETE ... WHERE uuid = ?, commit, rowcount > 0.  A call
\* that raises has committed nothing.
delete_record(tbl, uuid, db) ==
    [ok |-> db = "ok", exc |-> DbRaises(db),
     flag |-> db = "ok" /\ \E i \in 1..Len(tbl) : tbl[i].uuid = uuid,
     rows |-> IF db = "ok" THEN SelectSeq(tbl, LAMBDA r : r.uuid # uuid) ELSE tbl]

InitDb ==
    /\ rows = << >>
    /\ nextId = 1
    /\ clock \in 0..MaxClock
    /\ dbLast = NoDbCall
    /\ dbCalls = 0
    /\ DrawIdle /\ FontIdle /\ RenderIdle /\ RaceIdle
    /\ PreviewIdle /\ AppIdle /\ GridIdle

\* A second passes.
Tick ==
    /\ clock < MaxClock
    /\ clock' = clock + 1
    /\ UNCHANGED <<rows, nextId, dbLast, dbCalls, drawVars, fontVars, renderVars,
                   raceVars, previewVars, appVars, gridVars>>

InsertRecord ==
    \E uuid \in Uuids, data \in RecordInputs, db \in DbStates :
        LET r == insert_record(rows, nextId, uuid, clock, data, db)
        IN  /\ dbCalls < MaxDbCalls
            /\ Len(rows) < MaxRows
            /\ rows' = r.rows
            /\ nextId' = IF r.ok THEN nextId + 1 ELSE nextId
            /\ dbLast' = [op |-> "insert_record", id |-> r.uuid, ok |-> r.ok,
                          exc |-> r.exc, flag |-> r.ok, records |-> << >>,
                          arg |-> <<data>>, count |-> NoCount, at |-> 0]
            /\ dbCalls' = dbCalls + 1
            /\ UNCHANGED <<clock, drawVars, fontVars, renderVars, raceVars,
                           previewVars, appVars, gridVars>>

GetAllRecords ==
    \E db \in DbStates :
        \E result \in get_all_records(rows, db) :
            /\ dbCalls < MaxDbCalls
            /\ dbLast' = [op |-> "get_all_records", id |-> NoUuid,
                          ok |-> result.exc = "none", exc |-> result.exc,
                          flag |-> result.exc = "none", records |-> result.records,
                          arg |-> << >>, count |-> NoCount, at |-> 0]
            /\ dbCalls' = dbCalls + 1
            /\ UNCHANGED <<rows, nextId, clock, drawVars, fontVars, renderVars,
                           raceVars, previewVars, appVars, gridVars>>

GetRecordByUuid ==
    \E uuid \in Uuids, db \in DbStates :
        LET r == get_record_by_uuid(rows, uuid, db)
        IN  /\ dbCalls < MaxDbCalls
            /\ dbLast' = [op |-> "get_record_by_uuid", id |-> uuid,
                          ok |-> r.exc = "none", exc |-> r.exc,
                          flag |-> r.exc = "none", records |-> r.records,
                          arg |-> << >>, count |-> NoCount, at |-> 0]
            /\ dbCalls' = dbCalls + 1
            /\ UNCHANGED <<rows, nextId, clock, drawVars, fontVars, renderVars,
                           raceVars, previewVars, appVars, gridVars>>

DeleteRecord ==
    \E uuid \in Uuids, db \in DbStates :
        LET r == delete_record(rows, uuid, db)
        IN  /\ dbCalls < MaxDbCalls
            /\ rows' = r.rows
            /\ dbLast' = [op |-> "delete_record", id |-> uuid, ok |-> r.ok,
                          exc |-> r.exc, flag |-> r.flag, records |-> << >>,
                          arg |-> << >>, count |-> NoCount, at |-> 0]
            /\ dbCalls' = dbCalls + 1
            /\ UNCHANGED <<nextId, clock, drawVars, fontVars, renderVars, raceVars,
                           previewVars, appVars, gridVars>>

NextDb == Tick \/ InsertRecord \/ GetAllRecords \/ GetRecordByUuid \/ DeleteRecord

SpecDb == InitDb /\ [][NextDb]_vars

(***************************************************************************)
(* SpecForms: the main window's save, Excel import and delete actions      *)
(* (main.py) over the record store.  tree is the table the window shows,   *)
(* kept as the set of the uuids of its lines.                              *)
(***************************************************************************)
\* str.strip(): leading and trailing blanks removed.
RECURSIVE StripLeft(_)
StripLeft(text) ==
    IF text # << >> /\ Head(text) = " " THEN StripLeft(Tail(text)) ELSE text

RECURSIVE StripRight(_)
StripRight(text) ==
    IF text # << >> /\ text[Len(text)] = " "
    THEN StripRight(SubSeq(text, 1, Len(text) - 1)) ELSE text

strip(text) == StripRight(StripLeft(text))

\* A cell of the sheet as iter_rows(values_only=True) returns it: None, a
\* text, an integer, a float (num counts tenths) or a boolean (num is 0 or 1).
CellNone == [kind |-> "none", text |-> << >>, num |-> 0]

CellStr(text) == [kind |-> "str", text |-> text, num |-> 0]

CellInt(n) == [kind |-> "int", text |-> << >>, num |-> n]

CellFloat(tenths) == [kind |-> "float", text |-> << >>, num |-> tenths]

CellBool(b) == [kind |-> "bool", text |-> << >>, num |-> IF b THEN 1 ELSE 0]

\* The truth value of a cell: None, the empty text, 0, 0.0 and False are
\* falsy, every other value is truthy.
Truthy(cell) ==
    CASE cell.kind = "none" -> FALSE
      [] cell.kind = "str" -> cell.text # << >>
      [] OTHER -> cell.num # 0

DecimalDigits == <<"0", "1", "2", "3", "4", "5", "6", "7", "8", "9">>

\* The decimal digits of a natural number.
RECURSIVE Digits(_)
Digits(n) ==
    IF n < 10 THEN << DecimalDigits[n + 1] >>
    ELSE Digits(n \div 10) \o << DecimalDigits[(n % 10) + 1] >>

\* str(value) of a cell value (numbers are not negative here).
Str(cell) ==
    CASE cell.kind = "none" -> <<"N", "o", "n", "e">>
      [] cell.kind = "str" -> cell.text
      [] cell.kind = "int" -> Digits(cell.num)
      [] cell.kind = "float" ->
             Digits(cell.num \div 10) \o <<".">> \o Digits(cell.num % 10)
      [] OTHER -> IF cell.num = 1 THEN <<"T", "r", "u", "e">>
                  ELSE <<"F", "a", "l", "s", "e">>

\* str(cell or ""): a falsy cell gives "", any other cell its str().
OrEmpty(cell) == IF Truthy(cell) THEN Str(cell) ELSE << >>

\* str(row[k] or "").strip() if len(row) > k else ""   (k counted from 0)
CellText(row, k) == IF Len(row) > k THEN strip(OrEmpty(row[k + 1])) ELSE << >>

\* Data rows of Sheet 2, columns A..H: a complete row with blanks around its
\* texts; a row with no panggilan and a blank nama_mandarin; a row that ends
\* at column C, with a panggilan but neither nama_mandarin nor dari; a row
\* with a blank panggilan and a nama_mandarin, whose other cells hold
\* numbers and booleans; a row whose panggilan cell holds the number 0 and
\* whose nama_mandarin cell is empty.
RowComplete ==
    << CellInt(1), CellStr(<<"n">>), CellStr(<<" ", "p">>), CellStr(<<"m", " ">>),
       CellStr(<<"s">>), CellStr(<<"d">>), CellStr(<<"k">>), CellStr(<<"t">>) >>

RowBlank ==
    << CellInt(2), CellStr(<<"n">>), CellNone, CellStr(<<" ">>), CellNone,
       CellStr(<<"d">>), CellNone, CellNone >>

RowShort == << CellInt(3), CellNone, CellStr(<<"p">>) >>

RowMandarinOnly ==
    << CellInt(4), CellInt(12), CellStr(<<" ">>), CellStr(<<"m">>), CellFloat(15),
       CellFloat(0), CellBool(TRUE), CellBool(FALSE) >>

RowZero ==
    << CellInt(5), CellStr(<<"n">>), CellInt(0), CellNone, CellNone, CellStr(<<"d">>) >>

SheetRows == {RowComplete, RowBlank, RowShort, RowMandarinOnly, RowZero}

\* A sheet has at most MaxSheet data rows.
MaxSheet == 2

Sheets == UNION {[1..n -> SheetRows] : n \in 0..MaxSheet}

\* The seconds n successive datetime.now() calls can read from second c on.
NowsFrom(c, n) ==
    {f \in [1..n -> c..MaxClock] : \A i, j \in 1..n : i < j => f[i] <= f[j]}

\* if not panggilan and not nama_mandarin: continue
SkipRow(panggilan, nama_mandarin) == panggilan = << >> /\ nama_mandarin = << >>

\* The keyword arguments import_from_excel passes to insert_record for a row.
RowRecord(row, tahun_lunar, bulan_lunar, hari_lunar) ==
    [panggilan |-> CellText(row, 2), nama_mandarin |-> CellText(row, 3),
     dari |-> CellText(row, 5), nama |-> CellText(row, 1),
     penyebutan |-> CellText(row, 4), keluarga |-> CellText(row, 6),
     keterangan |-> CellText(row, 7), tahun_lunar |-> tahun_lunar,
     bulan_lunar |-> bulan_lunar, hari_lunar |-> hari_lunar]

\* The keyword arguments of the insert_record call for each data row, with
\* the default lunar date (tahun_lunar, bulan_lunar and hari_lunar are "").
SheetRecord == [row \in SheetRows |-> RowRecord(row, << >>, << >>, << >>)]

\* The for loop of import_from_excel from data row k on.  Each row that is
\* not skipped makes one insert_record call, which draws its own uuid4()
\* value (draws[k]), reads datetime.now() itself (nows[k]) and opens the
\* database itself (in state dbs[k]).  An exception of insert_record leaves
\* the loop and the function; at is the row it was raised at.
RECURSIVE ImportRows(_, _, _, _, _, _, _, _)
ImportRows(k, tbl, id, count, sheet, draws, nows, dbs) ==
    IF k > Len(sheet)
    THEN [ok |-> TRUE, exc |-> "none", count |-> count, rows |-> tbl, nextId |-> id,
          at |-> 0]
    ELSE LET data == SheetRecord[sheet[k]]
             r == insert_record(tbl, id, draws[k], nows[k], data, dbs[k])
         IN  IF SkipRow(data.panggilan, data.nama_mandarin)
             THEN ImportRows(k + 1, tbl, id, count, sheet, draws, nows, dbs)
             ELSE IF ~r.ok
             THEN [ok |-> FALSE, exc |-> r.exc, count |-> NoCount, rows |-> tbl,
                   nextId |-> id, at |-> k]
             ELSE ImportRows(k + 1, r.rows, id + 1, count + 1, sheet, draws, nows, dbs)

\* What opening the workbook meets: "ok"; openpyxl cannot be imported;
\* load_workbook raises OSError (no such file), KeyError (a part of the
\* archive is missing), zipfile.BadZipFile (not a zip archive) or openpyxl's
\* InvalidFileException (an .xls file); wb.worksheets[1] raises IndexError
\* (the workbook has one sheet).
FileStates ==
    {"ok", "no openpyxl", "OSError", "KeyError", "BadZipFile", "InvalidFileException",
     "IndexError"}

\* The exception that leaves import_from_excel before any row is read:
\* ImportError, OSError and KeyError are raised as RuntimeError, any other
\* exception as it is.
FileRaises(file) ==
    IF file = "ok" THEN "none"
    ELSE IF file \in {"no openpyxl", "OSError", "KeyError"} THEN "RuntimeError"
    ELSE file

\* A faulty variant: a failed row undoes the rows imported before it.
ImportFromExcelAtomic(tbl, id, sheet, draws, nows, dbs, file) ==
    LET r == ImportRows(1, tbl, id, 0, sheet, draws, nows, dbs)
    IN  IF file = "ok" /\ r.ok THEN r
        ELSE [ok |-> FALSE, exc |-> IF file = "ok" THEN r.exc ELSE FileRaises(file),
              count |-> NoCount, rows |-> tbl, nextId |-> id,
              at |-> IF file = "ok" THEN r.at ELSE 0]

\* import_from_excel(excel_path) with the workbook in state file.
import_from_excel(tbl, id, sheet, draws, nows, dbs, file) ==
    IF file # "ok"
    THEN [ok |-> FALSE, exc |-> FileRaises(file), count |-> NoCount, rows |-> tbl,
          nextId |-> id, at |-> 0]
    ELSE ImportRows(1, tbl, id, 0, sheet, draws, nows, dbs)

\* SpecForms runs at most MaxFormCalls actions, with uuid4() drawing from two
\* values.
MaxFormCalls == 2

FormUuids == {"u1", "u2"}

\* The save form as the operator filled it: the three required entries.
\* The other entries are left empty.
FormInputs ==
    { [panggilan |-> <<" ", "p">>, nama_mandarin |-> <<"m">>, dari |-> <<"d", " ">>],
      [panggilan |-> <<"p">>, nama_mandarin |-> <<"m">>, dari |-> <<" ">>],
      [panggilan |-> << >>, nama_mandarin |-> <<"m">>, dari |-> <<"d">>] }

\* The main window's last handler: the dialogs it showed and the exception
\* that left it ("none" when it returned).
Handled(handler, dialog, raised) ==
    [handler |-> handler, dialog |-> dialog, generated |-> FALSE, opened |-> NoPath,
     raised |-> raised]

\* except RuntimeError as e: messagebox.showerror(title, str(e)) -- any
\* other exception leaves the handler with no dialog shown.
ExceptRuntimeError(exc, title) ==
    [dialog |-> IF exc = "RuntimeError" THEN << Dialog("error", title) >> ELSE << >>,
     raised |-> IF exc = "RuntimeError" THEN "none" ELSE exc]

\* _refresh_table with res the outcome of its get_all_records call: the
\* table is emptied, then filled with the records returned; a RuntimeError
\* is shown, any other exception leaves _refresh_table and its caller.
_refresh_table(res) ==
    LET e == ExceptRuntimeError(res.exc, "Gagal Memuat Data")
    IN  [tree |-> {res.records[i].uuid : i \in 1..Len(res.records)},
         dialog |-> e.dialog, raised |-> e.raised]

InitForms ==
    /\ rows = << >>
    /\ nextId = 1
    /\ clock = 0
    /\ dbLast = NoDbCall
    /\ dbCalls = 0
    /\ entry_offset_x = Num(0) /\ entry_offset_y = Num(0)
    /\ selected = FALSE /\ tree = {} /\ ui = NoHandler
    /\ DrawIdle /\ FontIdle /\ RenderIdle /\ RaceIdle /\ PreviewIdle /\ GridIdle

\* _on_save: the Simpan button is clicked.  db is the state of the database
\* at the insert, db2 at the reload of the table that follows a success.
OnSave ==
    \E form \in FormInputs, uuid \in FormUuids, now \in clock..MaxClock,
       db \in DbStates, db2 \in DbStates :
        LET data == [RecordRequired EXCEPT !.panggilan = strip(form.panggilan),
                                           !.nama_mandarin = strip(form.nama_mandarin),
                                           !.dari = strip(form.dari)]
            valid == data.panggilan # << >> /\ data.nama_mandarin # << >>
                        /\ data.dari # << >>
            r == insert_record(rows, nextId, uuid, now, data, db)
            e == ExceptRuntimeError(r.exc, "Gagal Menyimpan")
        IN  /\ dbCalls < MaxFormCalls
            /\ Len(rows) < MaxRows
            /\ dbCalls' = dbCalls + 1
            /\ IF ~valid
               THEN /\ ui' = Handled("_on_save",
                                     << Dialog("warning", "Input Tidak Lengkap") >>, "none")
                    /\ dbLast' = NoDbCall
                    /\ UNCHANGED <<rows, nextId, clock, tree>>
               ELSE /\ rows' = r.rows
                    /\ nextId' = IF r.ok THEN nextId + 1 ELSE nextId
                    /\ clock' = now
                    /\ dbLast' = [op |-> "insert_record", id |-> r.uuid, ok |-> r.ok,
                                  exc |-> r.exc, flag |-> r.ok, records |-> << >>,
                                  arg |-> <<data>>, count |-> NoCount, at |-> 0]
                    /\ IF r.ok
                       THEN \E res \in get_all_records(r.rows, db2) :
                                LET t == _refresh_table(res)
                                IN  /\ tree' = t.tree
                                    /\ ui' = Handled("_on_save",
                                                     << Dialog("info", "Berhasil") >>
                                                         \o t.dialog, t.raised)
                       ELSE /\ tree' = tree
                            /\ ui' = Handled("_on_save", e.dialog, e.raised)
            /\ UNCHANGED <<entry_offset_x, entry_offset_y, selected, drawVars,
                           fontVars, renderVars, raceVars, previewVars, gridVars>>

\* _on_import_excel: the file dialog is cancelled; or the workbook chosen
\* cannot be opened (the except ImportError clause is never reached, as
\* import_from_excel raises RuntimeError for it); or its Sheet 2 is imported.  The insert of data row failAt meets
\* the database in state failDb (0: every insert meets a working database);
\* db2 is the state of the database at the reload of the table that follows
\* a success.
OnImportExcel ==
    \/ /\ dbCalls < MaxFormCalls
       /\ dbCalls' = dbCalls + 1
       /\ ui' = Handled("_on_import_excel", << >>, "none")
       /\ dbLast' = NoDbCall
       /\ UNCHANGED <<rows, nextId, clock, tree>>
       /\ UNCHANGED <<entry_offset_x, entry_offset_y, selected, drawVars,
                      fontVars, renderVars, raceVars, previewVars, gridVars>>
    \/ \E file \in FileStates \ {"ok"} :
       LET r == import_from_excel(rows, nextId, << >>, << >>, << >>, << >>, file)
           e == ExceptRuntimeError(r.exc, "Gagal Import")
       IN  /\ dbCalls < MaxFormCalls
           /\ dbCalls' = dbCalls + 1
           /\ ui' = Handled("_on_import_excel", e.dialog, e.raised)
           /\ dbLast' = [op |-> "import_from_excel", id |-> NoUuid, ok |-> r.ok,
                         exc |-> r.exc, flag |-> r.ok, records |-> << >>,
                         arg |-> << >>, count |-> r.count, at |-> r.at]
           /\ UNCHANGED <<rows, nextId, clock, tree>>
           /\ UNCHANGED <<entry_offset_x, entry_offset_y, selected, drawVars,
                          fontVars, renderVars, raceVars, previewVars, gridVars>>
    \/ \E sheet \in Sheets :
         \E failAt \in 0..Len(sheet),
            draws \in [1..Len(sheet) -> FormUuids],
            nows \in NowsFrom(clock, Len(sheet)) :
           \E failDb \in (IF failAt = 0 THEN {"ok"} ELSE DbStates \ {"ok"}) :
             LET dbs == [i \in 1..Len(sheet) |-> IF i = failAt THEN failDb ELSE "ok"]
                 r == import_from_excel(rows, nextId, sheet, draws, nows, dbs, "ok")
                 e == ExceptRuntimeError(r.exc, "Gagal Import")
             IN  /\ dbCalls < MaxFormCalls
                 /\ Len(rows) + Len(sheet) <= MaxRows
                 /\ dbCalls' = dbCalls + 1
                 /\ rows' = r.rows
                 /\ nextId' = r.nextId
                 /\ clock' = IF Len(sheet) = 0 THEN clock ELSE nows[Len(sheet)]
                 /\ dbLast' = [op |-> "import_from_excel", id |-> NoUuid, ok |-> r.ok,
                               exc |-> r.exc, flag |-> r.ok, records |-> << >>,
                               arg |-> << Len(sheet) >>, count |-> r.count, at |-> r.at]
                 /\ IF r.ok
                    THEN \E db2 \in DbStates :
                           \E res \in get_all_records(r.rows, db2) :
                             LET t == _refresh_table(res)
                             IN  /\ tree' = t.tree
                                 /\ ui' = Handled("_on_import_excel",
                                                  << Dialog("info", "Import Berhasil") >>
                                                      \o t.dialog, t.raised)
                    ELSE /\ tree' = tree
                         /\ ui' = Handled("_on_import_excel", e.dialog, e.raised)
                 /\ UNCHANGED <<entry_offset_x, entry_offset_y, selected, drawVars,
                                fontVars, renderVars, raceVars, previewVars, gridVars>>

\* _on_delete: the Hapus button is clicked with line choice of the table
\* selected (NoUuid: no line is selected) and the question answered with
\* confirm.  db is the state of the database at the delete, db2 at the
\* reload of the table that follows a success.
OnDelete ==
    \E choice \in tree \cup {NoUuid}, confirm \in BOOLEAN,
       db \in DbStates, db2 \in DbStates :
        LET r == delete_record(rows, choice, db)
            e == ExceptRuntimeError(r.exc, "Gagal Menghapus")
        IN  /\ dbCalls < MaxFormCalls
            /\ dbCalls' = dbCalls + 1
            /\ IF choice = NoUuid
               THEN /\ ui' = Handled("_on_delete",
                                     << Dialog("warning", "Tidak Ada Pilihan") >>, "none")
                    /\ dbLast' = NoDbCall
                    /\ UNCHANGED <<rows, tree>>
               ELSE IF ~confirm
               THEN /\ ui' = Handled("_on_delete", << >>, "none")
                    /\ dbLast' = NoDbCall
                    /\ UNCHANGED <<rows, tree>>
               ELSE /\ rows' = r.rows
                    /\ dbLast' = [op |-> "delete_record", id |-> choice, ok |-> r.ok,
                                  exc |-> r.exc, flag |-> r.flag, records |-> << >>,
                                  arg |-> << >>, count |-> NoCount, at |-> 0]
                    /\ IF ~r.ok
                       THEN /\ tree' = tree
                            /\ ui' = Handled("_on_delete", e.dialog, e.raised)
                       ELSE IF ~r.flag
                       THEN /\ tree' = tree
                            /\ ui' = Handled("_on_delete",
                                             << Dialog("warning", "Tidak Ditemukan") >>,
                                             "none")
                       ELSE \E res \in get_all_records(r.rows, db2) :
                                LET t == _refresh_table(res)
                                IN  /\ tree' = t.tree
                                    /\ ui' = Handled("_on_delete",
                                                     << Dialog("info", "Berhasil") >>
                                                         \o t.dialog, t.raised)
            /\ UNCHANGED <<nextId, clock, entry_offset_x, entry_offset_y, selected,
                           drawVars, fontVars, renderVars, raceVars, previewVars, gridVars>>

\* The Refresh button, whose command is _refresh_table: the table of the
\* window is reloaded from the database in state db.
OnRefresh ==
    \E db \in DbStates :
        \E res \in get_all_records(rows, db) :
            LET t == _refresh_table(res)
            IN  /\ dbCalls < MaxFormCalls
                /\ dbCalls' = dbCalls + 1
                /\ tree' = t.tree
                /\ ui' = Handled("_refresh_table", t.dialog, t.raised)
                /\ dbLast' = [op |-> "get_all_records", id |-> NoUuid,
                              ok |-> res.exc = "none", exc |-> res.exc,
                              flag |-> res.exc = "none", records |-> res.records,
                              arg |-> << >>, count |-> NoCount, at |-> 0]
                /\ UNCHANGED <<rows, nextId, clock, entry_offset_x, entry_offset_y,
                               selected, drawVars, fontVars, renderVars, raceVars,
                               previewVars, gridVars>>

NextForms == OnSave \/ OnImportExcel \/ OnDelete \/ OnRefresh

SpecForms == InitForms /\ [][NextForms]_vars

(***************************************************************************)
(* Claims about the placement routines, checked under SpecDraw.            *)
(***************************************************************************)
Rendered == "render" \in dDone

Previewed == "preview" \in dDone

\* C1: for a text of length N >= 1 the vertical routine issues exactly N draw
\* calls in string order, the i-th (0-based) drawing character text[i] at
\* (x + ox, y + oy - i*S) mm.
C1_VerticalPlacement ==
    (Rendered /\ SITES[dField].vertical /\ Len(dText) >= 1) =>
        /\ Len(dCanvas.ops) = Len(dText)
        /\ \A i \in 1..Len(dText) :
              /\ dCanvas.ops[i].text = <<dText[i]>>
              /\ dCanvas.ops[i].x = mm(SITES[dField].x + dOx)
              /\ dCanvas.ops[i].y =
                     mm(SITES[dField].y + dOy - (i - 1) * SITES[dField].spacing)

\* C1 witness: a three-character vertical run drawn with a non-zero offset.
C1_Witness ==
    /\ Rendered /\ SITES[dField].vertical
    /\ Len(dText) = 3 /\ dOx # 0 /\ dOy # 0
    /\ Len(dCanvas.ops) = 3

\* C2: for a text of length N >= 1 the renderer's horizontal placement
\* yields one placement per character, glyph i at (x + ox + i*S, y + oy),
\* S the field's spacing.  (The empty text is the case of C5.)
C2_HorizontalPlacement ==
    (Rendered /\ ~SITES[dField].vertical /\ Len(dText) >= 1) =>
        /\ Len(dCanvas.ops) = Len(dText)
        /\ \A i \in 1..Len(dText) :
              /\ dCanvas.ops[i].text = <<dText[i]>>
              /\ dCanvas.ops[i].x =
                     mm(SITES[dField].x + dOx + (i - 1) * FIELDS[dField].spacing)
              /\ dCanvas.ops[i].y = mm(SITES[dField].y + dOy)

\* C3: for every field, text and offset, glyph i of the preview's marker run
\* is at the position at which the renderer draws glyph i.
C3_PreviewMatchesRenderer ==
    (Rendered /\ Previewed) =>
        \A i \in 1..Len(dMarks) :
            /\ i <= Len(dCanvas.ops)
            /\ Len(dCanvas.ops[i].text) >= 1
            /\ dCanvas.ops[i].text[1] = dMarks[i].char
            /\ dCanvas.ops[i].x = mm(dMarks[i].x)
            /\ dCanvas.ops[i].y = mm(dMarks[i].y)

\* C4: every draw call made with offset (a, b) is the draw call made with
\* offset (0, 0) translated by (a, b); the offset changes neither the number
\* nor the order nor the text of the calls.
C4_OffsetLinear ==
    Rendered =>
        /\ Len(dCanvas.ops) = Len(dCanvas0.ops)
        /\ \A i \in 1..Len(dCanvas.ops) :
              /\ dCanvas.ops[i].text = dCanvas0.ops[i].text
              /\ dCanvas.ops[i].x = dCanvas0.ops[i].x + mm(dOx)
              /\ dCanvas.ops[i].y = dCanvas0.ops[i].y + mm(dOy)

\* C4 witness: a run of three glyphs drawn with an offset that moves both axes.
C4_Witness ==
    /\ Rendered /\ dOx > 0 /\ dOy < 0
    /\ Len(dCanvas.ops) = 3
    /\ dCanvas.ops[3].y # dCanvas0.ops[3].y

\* C5: an empty field text performs no drawing call, for vertical and for
\* horizontal fields alike.
C5_EmptyTextDrawsNothing ==
    (Rendered /\ dText = <<>>) => dCanvas.ops = <<>>

(***************************************************************************)
(* Claims about the render calls, checked under Spec.                      *)
(***************************************************************************)
Failed(l) == l.status \in {"FileNotFoundError", "RuntimeError"}

OkPdf(l) == l.op = "generate_pdf" /\ l.status = "ok"

SameJob(a, b) == a.data = b.data /\ a.ox = b.ox /\ a.oy = b.oy

\* C6: when generate_pdf fails after it has written the temporary overlay
\* file, that file does not exist when the error is returned.
C6_OverlayCleanedOnFailure ==
    (last.op = "generate_pdf" /\ Failed(last) /\ last.overlayMade) =>
        ~disk["overlay"].exists

\* C7: when no candidate typeface can be located or loaded, generate_pdf
\* fails with the font-unavailable error (FileNotFoundError raised by
\* _register_font, not RuntimeError), and neither the output file nor the
\* temporary overlay file exists.
C7_FontUnavailable ==
    (last.op = "generate_pdf" /\ ~Usable(fontEnv)) =>
        /\ last.status = "FileNotFoundError"
        /\ last.cause = "font"
        /\ ~disk["out"].exists
        /\ ~disk["overlay"].exists

\* C7 witness: a generate_pdf call has ended where a candidate file exists
\* but none loads.
C7_Witness ==
    /\ last.op = "generate_pdf"
    /\ ~Usable(fontEnv)
    /\ \E i \in 1..NumCandidates : fontEnv[i] = "unloadable"
    /\ last.status = "FileNotFoundError"

\* C9: once a registration has succeeded, no later call checks a candidate
\* path or registers a font, and the flag stays set; so at most one
\* registration succeeds in the life of the process.
C9_RegisteredOnce ==
    /\ [][_FONT_REGISTERED =>
              /\ _FONT_REGISTERED'
              /\ nIsfile' = nIsfile
              /\ nRegisterFont' = nRegisterFont]_vars
    /\ [](nRegisterFont <= 1)

\* C9 witness: both kinds of render call have succeeded in one process, with
\* one registration.
C9_Witness ==
    /\ _FONT_REGISTERED /\ nRegisterFont = 1
    /\ disk["out"].exists /\ disk["out"].complete
    /\ disk["grid"].exists

\* C10: with the template absent generate_pdf is not failed by the merge, its
\* output is a single page holding the text overlay alone, and that text
\* layer is the one merged over the template by the preceding call for the
\* same job with the template present.
C10_TemplateAbsent ==
    /\ []((last.op = "generate_pdf" /\ last.tmpl = "absent") => last.cause # "template")
    /\ []((OkPdf(last) /\ last.tmpl = "absent") =>
            disk["out"] = PdfFile(FALSE, DrawOverlay(last.data, last.ox, last.oy).ops))
    /\ [][(/\ OkPdf(last) /\ last.tmpl = "ok"
           /\ OkPdf(last') /\ last'.tmpl = "absent"
           /\ SameJob(last, last')) =>
              /\ disk["out"].background /\ ~disk'["out"].background
              /\ disk'["out"].pages = 1
              /\ disk'["out"].ops = disk["out"].ops]_vars

\* C10 witness: a render without template has succeeded and its page holds
\* the glyphs of the job.
C10_Witness ==
    /\ OkPdf(last) /\ last.tmpl = "absent"
    /\ disk["out"].complete /\ ~disk["out"].background
    /\ Len(disk["out"].ops) >= 5

\* C11: a failure of generate_pdf after the font is registered (drawing,
\* saving, reading, merging, writing; also one the platform reports as
\* FileNotFoundError) is raised as the render error RuntimeError, never as
\* the FileNotFoundError that means the font is unavailable.
C11_DownstreamFailureIsRenderError ==
    (last.op = "generate_pdf" /\ Failed(last) /\ last.cause # "font") =>
        last.status = "RuntimeError"

\* C18: a successful generate_pdf leaves the complete output file at
\* output_path and no temporary overlay file, changes no other file, returns
\* output_path in absolute form and leaves the data mapping as it was given.
C18_SuccessEffects ==
    /\ [](OkPdf(last) =>
            /\ disk["out"].exists /\ disk["out"].complete
            /\ ~disk["overlay"].exists
            /\ last.ret.abs /\ last.ret.name = last.path.name
            /\ last.dataAfter = last.data)
    /\ [][OkPdf(last') => disk'["grid"] = disk["grid"]]_vars

\* C18 witness: a job given a relative output_path has succeeded while the
\* calibration grid file is on disk.
C18_Witness ==
    /\ OkPdf(last) /\ ~last.path.abs /\ last.ret.abs
    /\ disk["out"].complete /\ disk["grid"].exists

(***************************************************************************)
(* Claims about concurrent registration, checked under SpecRace.           *)
(***************************************************************************)
\* C8: when several calls run _register_font concurrently before any
\* registration has completed, the typeface is registered exactly once: never
\* more than one registerFont call succeeds, and once every call has returned
\* with a loadable candidate present exactly one has.
C8_RegisteredOnceUnderRace ==
    /\ nRegisterFont <= 1
    /\ ((\A t \in Threads : tpc[t] = "done") /\ Usable(fontEnv)) => nRegisterFont = 1

(***************************************************************************)
(* Claims about the calibration preview, checked under SpecPreview.        *)
(***************************************************************************)
\* Both offset entries of window s hold a number.
EntriesParse(s) == float(OrZero(s.entry_ox)).ok /\ float(OrZero(s.entry_oy)).ok

\* C12: from any text in the preview's offset entry, the +0.5 mm nudge
\* applied twice leaves the same stored offset as the +1.0 mm nudge applied
\* once.
C12_HalfTwiceIsOneOnce ==
    \A axis \in Axes :
        get_offsets(_nudge(_nudge(pv, axis, 50), axis, 50))
            = get_offsets(_nudge(pv, axis, Mm(1)))

\* The entry of the axis shows the stored offset of the axis.
EntryShowsStored(s, axis) ==
    LET entry == float(OrZero(IF axis = "x" THEN s.entry_ox ELSE s.entry_oy))
    IN  entry.ok /\ entry.val = get_offsets(s)[axis]

\* C13: a nudge of an axis whose entry shows the stored offset adds exactly
\* delta to the stored offset of that axis and redraws with it, whatever the
\* entry of the other axis holds.
C13_NudgeAddsDelta ==
    [][\A axis \in Axes, delta \in Deltas :
          (pv' = _nudge(pv, axis, delta) /\ EntryShowsStored(pv, axis)) =>
              /\ get_offsets(pv')[axis] = get_offsets(pv)[axis] + delta
              /\ pv'.redrawn
              /\ pv'.drawn = <<pv'.offset_x, pv'.offset_y>>]_vars

\* C14: a print click made while an offset entry holds no number does not
\* call the injected callback.  (The click leaves the entries as they are,
\* and pvCalls holds the calls of the last handler.)
C14_NoCallbackOnBadEntry ==
    ~EntriesParse(pv) => pvCalls = << >>

\* C15: a print click calls the callback at most once, with exactly the
\* offset pair the most recent redraw displayed, and the preview creates no
\* file.
C15_CallbackGetsDisplayedOffset ==
    /\ Len(pvCalls) <= 1
    /\ \A i \in 1..Len(pvCalls) : <<pvCalls[i].ox, pvCalls[i].oy>> = pv.drawn
    /\ disk = [p \in Paths |-> NoFile]

(***************************************************************************)
(* Claims about the main window's print action, checked under SpecApp.     *)
(***************************************************************************)
\* Both offset entries of the main window hold a number.
OffsetEntriesParse ==
    float(OrZero(entry_offset_x)).ok /\ float(OrZero(entry_offset_y)).ok

\* C16: when offset X or offset Y is no number, the print action shows one
\* warning and nothing else: generate_pdf is not called, no file is created
\* or changed, no font is looked up.
C16_BadOffsetOnlyWarns ==
    /\ []((ui.handler = "_on_print" /\ ~OffsetEntriesParse) =>
            /\ ~ui.generated
            /\ Len(ui.dialog) = 1 /\ ui.dialog[1].kind = "warning"
            /\ (selected => ui.dialog[1].title = "Offset Tidak Valid"))
    /\ [][(ui'.handler = "_on_print" /\ ~OffsetEntriesParse') =>
            UNCHANGED <<disk, last, fontVars>>]_vars

\* C16 witness: with a row selected, a file printed earlier on disk and an
\* unparseable Y entry, the print action has ended with its warning.
C16_Witness ==
    /\ ui.handler = "_on_print" /\ selected
    /\ entry_offset_y = BadText /\ entry_offset_x = Num(150)
    /\ ui.dialog = << Dialog("warning", "Offset Tidak Valid") >>
    /\ disk["out"].exists /\ last.status = "ok"

(***************************************************************************)
(* Claims about the calibration grid, checked under SpecGrid.              *)
(***************************************************************************)
\* C17: the grid drawn for a page of W x H mm has exactly
\* (floor(W/10)+1) * (floor(H/10)+1) dots and
\* (floor(W/50)+1) * (floor(H/50)+1) labels, and every label is at a dot.
C17_GridCounts ==
    gDone =>
        /\ Cardinality(gDots) = ((gW \div 10) + 1) * ((gH \div 10) + 1)
        /\ Cardinality(gLabels) = ((gW \div 50) + 1) * ((gH \div 50) + 1)
        /\ \A l \in gLabels : <<l.x, l.y>> \in gDots

\* C17 witness: the grid of the A4 page is drawn, 660 dots and 30 labels.
C17_Witness ==
    /\ gDone /\ gW = A4_WIDTH_MM /\ gH = A4_HEIGHT_MM
    /\ Cardinality(gDots) = 660 /\ Cardinality(gLabels) = 30

(***************************************************************************)
(* Claims about the record store, checked under SpecDb.                    *)
(***************************************************************************)
\* C19: get_all_records returns the rows newest first: of two rows, the one
\* inserted later (the larger id) comes earlier in the result, also when
\* both were inserted within the same clock second.
C19_NewestFirst ==
    dbLast.op = "get_all_records" =>
        \A i, j \in 1..Len(dbLast.records) :
            i < j => dbLast.records[i].id > dbLast.records[j].id

\* C20: delete_record(id) returns True exactly when a row with that uuid was
\* stored; the row is then gone (get_record_by_uuid gives None, a second
\* delete gives False) and every other row is as it was; when it returns
\* False the table is as it was.
C20_DeleteExact ==
    [][(dbCalls' # dbCalls /\ dbLast'.op = "delete_record" /\ dbLast'.ok) =>
          LET id == dbLast'.id
              stored == \E i \in 1..Len(rows) : rows[i].uuid = id
          IN  /\ dbLast'.flag = stored
              /\ rows' = SelectSeq(rows, LAMBDA r : r.uuid # id)
              /\ ~stored => rows' = rows
              /\ get_record_by_uuid(rows', id, "ok").records = << >>
              /\ ~delete_record(rows', id, "ok").flag
              /\ nextId' = nextId]_vars

\* C20 witness: a stored row has been deleted while another row stays.
C20_Witness ==
    /\ dbLast.op = "delete_record" /\ dbLast.ok /\ dbLast.flag
    /\ Len(rows) >= 1

\* C21: no two stored rows share a uuid; a successful insert_record returns
\* a uuid that no row stored at that moment has, and get_record_by_uuid of
\* it returns one row carrying exactly the ten values passed.
C21_UniqueId ==
    /\ [](\A i, j \in 1..Len(rows) : rows[i].uuid = rows[j].uuid => i = j)
    /\ [][(dbCalls' # dbCalls /\ dbLast'.op = "insert_record" /\ dbLast'.ok) =>
            LET got == get_record_by_uuid(rows', dbLast'.id, "ok").records
            IN  /\ \A i \in 1..Len(rows) : rows[i].uuid # dbLast'.id
                /\ Len(got) = 1
                /\ got[1].data = dbLast'.arg[1]
                /\ SubSeq(rows', 1, Len(rows)) = rows]_vars

\* C21 witness: a row was deleted and a row inserted after it, next to a row
\* that stayed; the uuids in the table differ.
C21_Witness ==
    /\ dbLast.op = "insert_record" /\ dbLast.ok
    /\ Len(rows) = 2 /\ nextId = 4
    /\ rows[2].uuid = dbLast.id /\ rows[2].data = RecordFull

(***************************************************************************)
(* Claims about the Excel import and the main window's record actions,     *)
(* checked under SpecForms.                                                *)
(***************************************************************************)
\* The cell in column k (from 0) of a data row is empty after trimming: the
\* row ends before it, it holds nothing, or it holds a text of blanks only.
ColumnBlank(row, k) ==
    \/ Len(row) <= k
    \/ row[k + 1].kind = "none"
    \/ /\ row[k + 1].kind = "str"
       /\ \A i \in 1..Len(row[k + 1].text) : row[k + 1].text[i] = " "

\* The data rows of a sheet whose panggilan and nama_mandarin columns are
\* not both empty after trimming, in row order.
NotBothEmpty(sheet) ==
    SelectSeq(sheet, LAMBDA row : ~(ColumnBlank(row, 2) /\ ColumnBlank(row, 3)))

\* The data rows of a sheet that the import does not skip, in row order.
Surviving(sheet) ==
    SelectSeq(sheet, LAMBDA row : ~SkipRow(CellText(row, 2), CellText(row, 3)))

\* Table after holds table before followed by one record per row of kept,
\* in order, with the trimmed cell texts of the row.
GrownBy(after, before, kept) ==
    /\ Len(after) = Len(before) + Len(kept)
    /\ SubSeq(after, 1, Len(before)) = before
    /\ \A k \in 1..Len(kept) :
           after[Len(before) + k].data = RowRecord(kept[k], << >>, << >>, << >>)

\* C22: an import that returns has skipped exactly the data rows whose
\* panggilan and nama_mandarin columns are both empty after trimming, has
\* stored one record per other row in row order, and returns the number of
\* records it stored.
C22_ImportSkipsAndCounts ==
    /\ [](\A sheet \in Sheets :
            \A draws \in [1..Len(sheet) -> FormUuids], nows \in NowsFrom(clock, Len(sheet)) :
                LET r == import_from_excel(rows, nextId, sheet, draws, nows,
                                           [i \in 1..Len(sheet) |-> "ok"], "ok")
                IN  r.ok => /\ r.count = Len(NotBothEmpty(sheet))
                            /\ GrownBy(r.rows, rows, NotBothEmpty(sheet)))
    /\ [][(dbCalls' # dbCalls /\ dbLast'.op = "import_from_excel" /\ dbLast'.ok) =>
            /\ Len(rows') = Len(rows) + dbLast'.count
            /\ SubSeq(rows', 1, Len(rows)) = rows
            /\ dbLast'.count <= dbLast'.arg[1]]_vars

\* C29: after any sequence of save, import and delete actions, every stored
\* record has a non-empty panggilan, nama_mandarin and dari.
C29_RequiredFieldsNonEmpty ==
    \A i \in 1..Len(rows) :
        /\ rows[i].data.panggilan # << >>
        /\ rows[i].data.nama_mandarin # << >>
        /\ rows[i].data.dari # << >>

\* C30: when the insert for data row k fails, the import raises, returns no
\* count, and the records of the surviving rows before row k stay stored.
C30_ImportNotAtomic ==
    /\ [](\A sheet \in Sheets :
            \A dbs \in [1..Len(sheet) -> DbStates],
               draws \in [1..Len(sheet) -> FormUuids],
               nows \in NowsFrom(clock, Len(sheet)) :
                LET r == import_from_excel(rows, nextId, sheet, draws, nows, dbs, "ok")
                IN  ~r.ok =>
                        /\ r.exc \in {"RuntimeError", "UnboundLocalError"}
                        /\ r.at \in 1..Len(sheet)
                        /\ r.count = NoCount
                        /\ sheet[r.at] \in {Surviving(sheet)[i] :
                                                i \in 1..Len(Surviving(sheet))}
                        /\ GrownBy(r.rows, rows, Surviving(SubSeq(sheet, 1, r.at - 1))))
    /\ [][(dbCalls' # dbCalls /\ dbLast'.op = "import_from_excel" /\ ~dbLast'.ok) =>
            /\ dbLast'.count = NoCount
            /\ dbLast'.exc # "none"
            /\ dbLast'.at > 0 => dbLast'.exc \in {"RuntimeError", "UnboundLocalError"}
            /\ dbLast'.exc = "RuntimeError" =>
                   /\ ui'.dialog = << Dialog("error", "Gagal Import") >>
                   /\ ui'.raised = "none"
            /\ dbLast'.exc # "RuntimeError" =>
                   /\ ui'.dialog = << >>
                   /\ ui'.raised = dbLast'.exc
            /\ SubSeq(rows', 1, Len(rows)) = rows]_vars

\* C30 witness: the first import failed at its second data row and the
\* record of its first row is stored.
C30_Witness ==
    /\ dbLast.op = "import_from_excel" /\ ~dbLast.ok /\ dbLast.at = 2
    /\ dbCalls = 1 /\ Len(rows) = 1


\* The draw call of a finished output file that draws character j (1-based)
\* of the second part of a combined field: `before` draw calls precede the
\* field's run, the first part has `first` characters, and the run descends
\* from the anchor of call site k shifted by the job's offset.
SecondPartAt(ops, before, first, part, k, ox, oy) ==
    \A j \in 1..Len(part) :
        LET op == ops[before + first + j]
        IN  /\ op.text = <<part[j]>>
            /\ op.x = mm(SITES[k].x + ox)
            /\ op.y = mm(SITES[k].y + oy) - mm((first + j - 1) * Mm(12))

\* C23: a combined field is drawn as one vertical run: character j (0-based)
\* of nama_mandarin is at run index len(panggilan) + j of the column anchored
\* at (68, 200) with spacing 12, character j of keterangan at run index
\* len(dari) + j of the column anchored at (42, 170) with spacing 12, so an
\* empty first part makes the second part start at the anchor.
C23_CombinedFieldOneRun ==
    OkPdf(last) =>
        LET data == last.data
            ops == disk["out"].ops
            n1 == Len(data.panggilan) + Len(data.nama_mandarin)
        IN  /\ Len(ops) >= n1 + Len(data.dari) + Len(data.keterangan)
            /\ SecondPartAt(ops, 0, Len(data.panggilan), data.nama_mandarin,
                            1, last.ox, last.oy)
            /\ SecondPartAt(ops, n1, Len(data.dari), data.keterangan,
                            2, last.ox, last.oy)

\* C23 witness: a finished job with a non-zero offset whose panggilan and dari
\* are empty, whose nama_mandarin has one character and whose keterangan has
\* two, the first of them drawn at the anchor (42, 170) shifted by the offset.
C23_Witness ==
    /\ OkPdf(last) /\ last.ox # 0
    /\ last.data.panggilan = <<>> /\ last.data.dari = <<>>
    /\ Len(last.data.nama_mandarin) = 1
    /\ Len(last.data.keterangan) = 2
    /\ disk["out"].ops[2].x = mm(Mm(42) + last.ox)
    /\ disk["out"].ops[2].y = mm(Mm(170) + last.oy)


\* C24: when no typeface can be located, generate_calibration_pdf fails with
\* the error kind generate_pdf fails with (FileNotFoundError, the
\* font-unavailable error) and creates no output file.
C24_CalibrationFontErrorKind ==
    (last.op = "generate_calibration_pdf" /\ last.cause = "font") =>
        /\ last.status = RaisedAs("FileNotFoundError")
        /\ ~disk["grid"].exists


\* Candidate k is the first of the list that exists and loads.
FirstLoadable(k) ==
    /\ k \in 1..NumCandidates
    /\ fontEnv[k] = "ok"
    /\ \A i \in 1..(k - 1) : fontEnv[i] # "ok"

\* C25: a call of _register_font that scans the list checks the candidates in
\* order and registers the first one that exists and loads, then stops (it has
\* checked no candidate after that one); a candidate that exists but fails to
\* load is skipped; the call raises the error only when every candidate is
\* missing or fails to load, after checking them all.
C25_FirstLoadableCandidate ==
    \A t \in Threads :
        /\ tpc[t] \in {"scan", "load"} =>
              /\ tChecked[t] = (IF tpc[t] = "load" THEN tidx[t] ELSE tidx[t] - 1)
              /\ \A i \in 1..(tidx[t] - 1) : fontEnv[i] # "ok"
        /\ (tpc[t] = "set" \/ (tpc[t] = "done" /\ tChecked[t] > 0)) =>
              /\ FirstLoadable(tidx[t])
              /\ tChecked[t] = tidx[t]
        /\ tpc[t] = "raised" =>
              /\ \A i \in 1..NumCandidates : fontEnv[i] # "ok"
              /\ tChecked[t] = NumCandidates

\* C25 witness: a call has returned after registering the third candidate,
\* the first being unloadable, the second missing and the fourth loadable.
C25_Witness ==
    \E t \in Threads :
        /\ tpc[t] = "done" /\ tidx[t] = 3 /\ tChecked[t] = 3
        /\ fontEnv = <<"unloadable", "missing", "ok", "ok">>


\* C26: the page width and height in mm the preview uses for its outline, its
\* grid extent and its Y flip equal the page width and height of the document
\* generate_pdf and generate_calibration_pdf produce.
C26_PreviewPageIsRendererPage ==
    pv.page = PageSize


\* C27: the preview's offset update is all-or-nothing: when the Update
\* Preview handler finds either offset entry unparseable, neither stored
\* offset changes and no redraw happens, so get_offsets() still returns the
\* pair the last redraw displayed.
C27_UpdateAllOrNothing ==
    [][(pv' = _on_update([pv EXCEPT !.redrawn = FALSE]) /\ ~EntriesParse(pv)) =>
          /\ get_offsets(pv') = get_offsets(pv)
          /\ ~pv'.redrawn
          /\ <<get_offsets(pv').x, get_offsets(pv').y>> = pv'.drawn]_vars


\* C28: a nudge on one axis leaves the stored offset of the other axis
\* unchanged, in every state of the preview, also when the other axis's entry
\* has been edited since the last update.
C28_NudgeKeepsOtherAxis ==
    [][\A axis \in Axes, delta \in Deltas :
          pv' = _nudge(pv, axis, delta) =>
              \A other \in Axes \ {axis} :
                  get_offsets(pv')[other] = get_offsets(pv)[other]]_vars

====
